---- MODULE Spec2Model ----
(***************************************************************************)
(* AdaptLab: the submission pipeline (api/routes_submit.py), the sandbox    *)
(* executor, the anti-gaming detector, the capability engine, the           *)
(* escalation engine, the problem validator and the question selector,      *)
(* as one state machine over the persistent tables and the in-memory        *)
(* cooldown store.                                                          *)
(*                                                                          *)
(* Numbers.  Pass rates are the executor's 4-decimal values, held as        *)
(* integers in units of 1/10000.  Capability scores are held as integers    *)
(* in units of 1/10^6.  EMA weights are held in percent.  Wall-clock time   *)
(* is held in ticks of half a second, so that the truncation of             *)
(* int(timedelta.total_seconds()) is visible.                               *)
(***************************************************************************)
EXTENDS Integers, Sequences, FiniteSets, TLC

RateScale  == 10^4
ScoreScale == 10^6
TicksPerSecond == 2

Min2(a, b) == IF a <= b THEN a ELSE b
Max2(a, b) == IF a >= b THEN a ELSE b

RECURSIVE SumRange(_, _, _)
\* s[i] + ... + s[n], by halves
SumRange(s, i, n) ==
    IF i > n THEN 0
    ELSE IF i = n THEN s[i]
    ELSE SumRange(s, i, (i + n) \div 2) + SumRange(s, (i + n) \div 2 + 1, n)

SumSeq(s) == SumRange(s, 1, Len(s))

RECURSIVE FilterIdx(_, _, _)
\* the indices i..n of a sequence whose element satisfies keep[i], in order, by halves
FilterIdx(keep, i, n) ==
    IF i > n THEN <<>>
    ELSE IF i = n THEN (IF keep[i] THEN <<i>> ELSE <<>>)
    ELSE FilterIdx(keep, i, (i + n) \div 2) \o FilterIdx(keep, (i + n) \div 2 + 1, n)

(***************************************************************************)
(* utils/constants.py                                                      *)
(***************************************************************************)
EMA_DEFAULT_WEIGHT == 15
INITIAL_SCORE == (5 * ScoreScale) \div 10
SCORE_MIN == 0
SCORE_MAX == ScoreScale

SUBMISSION_SCORE_FULL_PASS     == ScoreScale
SUBMISSION_SCORE_PARTIAL_HIGH  == (6 * ScoreScale) \div 10
SUBMISSION_SCORE_PARTIAL_LOW   == (4 * ScoreScale) \div 10
SUBMISSION_SCORE_ZERO_PASS     == (3 * ScoreScale) \div 10
SUBMISSION_SCORE_SYNTAX_ERROR  == (2 * ScoreScale) \div 10
SUBMISSION_SCORE_TIMEOUT_CRASH == (1 * ScoreScale) \div 10

ZONE_TOO_DIFFICULT == (40 * ScoreScale) \div 100
ZONE_EASY_MAX      == (55 * ScoreScale) \div 100
ZONE_MEDIUM_MAX    == (75 * ScoreScale) \div 100

BAND_MIN == 0
BAND_MAX == 3

ESCALATION_STREAK  == 3
ESCALATION_LOW_CAP == (40 * ScoreScale) \div 100

ANTI_GAME_GAP           == (40 * RateScale) \div 100
ANTI_GAME_VISIBLE_FULL  == RateScale
ANTI_GAME_HIDDEN_THRESH == (50 * RateScale) \div 100
ANTI_GAME_WINDOW_MIN    == 3
ANTI_GAME_SUBMIT_MAX    == 5
ANTI_GAME_DISTINCT_MIN  == 1
ANTI_GAME_COOLDOWN_S    == 60
ANTI_GAME_SCORE_CAP     == (3 * RateScale) \div 10

\* HIDDEN_RATIO_MIN = 0.30 as the fraction HiddenRatioNum / HiddenRatioDen
HIDDEN_RATIO_MIN_NUM == 30
HIDDEN_RATIO_MIN_DEN == 100

USE_GAUSSIAN == FALSE

DIFFICULTY_EASY   == "easy"
DIFFICULTY_MEDIUM == "medium"
DIFFICULTY_HARD   == "hard"

Concepts == {"variables", "loops", "arrays"}

\* CONCEPT_PREREQUISITES.get(concept, "variables"), on the concepts of the model
get_prerequisite(concept) ==
    CASE concept = "loops"  -> "variables"
      [] concept = "arrays" -> "loops"
      [] OTHER              -> "variables"

BAND_OFFSET(signal) ==
    CASE signal = "easier" -> 0 - 1
      [] signal = "harder" -> 1
      [] OTHER             -> 0

ErrorTypes ==
    {"syntax_error", "missing_base_case", "off_by_one", "wrong_data_structure",
     "brute_force_detected", "hardcoded_values", "generalization_failure",
     "approach_mismatch", "none"}

\* CONCEPT_WEIGHTS[error_type].get(concept, EMA_DEFAULT_WEIGHT), in percent
ConceptWeight(error_type, concept) ==
    CASE error_type = "off_by_one" /\ concept = "loops"   -> 20
      [] error_type = "off_by_one" /\ concept = "arrays"  -> 5
      [] error_type = "wrong_data_structure" /\ concept = "arrays" -> 8
      [] error_type = "brute_force_detected" /\ concept = "loops"  -> 10
      [] error_type = "generalization_failure" /\ concept = "loops"  -> 15
      [] error_type = "generalization_failure" /\ concept = "arrays" -> 10
      [] error_type = "hardcoded_values" /\ concept \in {"loops", "arrays"} -> 10
      [] OTHER -> EMA_DEFAULT_WEIGHT

(***************************************************************************)
(* Source text.  A code is a sequence of characters; " " stands for any    *)
(* whitespace character.                                                   *)
(***************************************************************************)
IsSpace(ch) == ch = " "

RECURSIVE LStrip(_)
LStrip(s) == IF s # <<>> /\ IsSpace(Head(s)) THEN LStrip(Tail(s)) ELSE s

RECURSIVE RStrip(_)
RStrip(s) ==
    IF s # <<>> /\ IsSpace(s[Len(s)]) THEN RStrip(SubSeq(s, 1, Len(s) - 1)) ELSE s

\* str.strip()
Strip(s) == RStrip(LStrip(s))

\* sha256 of the stripped text: the digest stands for the text it was taken of
hash_code(code) == <<"sha256", Strip(code)>>

\* ast.parse(code) succeeds: a code holding "(" is unbalanced
ast_parse(code) == \A i \in 1..Len(code) : code[i] # "("

\* compile(code, "<student>", "exec") succeeds: the code parses and passes the
\* compiler's own checks; "b" stands for a statement the grammar accepts and
\* the compiler refuses with a SyntaxError (a break outside a loop, a return
\* outside a function, a duplicate argument name)
check_syntax(code) == ast_parse(code) /\ \A i \in 1..Len(code) : code[i] # "b"

(***************************************************************************)
(* sandbox/executor.py                                                     *)
(*                                                                         *)
(* A test case is [input, output, hidden]; its position in the list tells  *)
(* the cases apart.  What the subprocess of one case                       *)
(* does is the environment's choice, a RunOutcome:                         *)
(*   out  "expected" (stdout equals the expected output), "other", or ""   *)
(*   timed_out, runtime_err  as _run_single reports them                   *)
(*   ms   elapsed milliseconds                                             *)
(* An output carries the index of the case that produced it (src), so      *)
(* that where an output ends up can be told.                               *)
(***************************************************************************)
RunPass    == [out |-> "expected", timed_out |-> FALSE, runtime_err |-> FALSE, ms |-> 0]
RunWrong   == [out |-> "other",    timed_out |-> FALSE, runtime_err |-> FALSE, ms |-> 0]
RunCrash   == [out |-> "other",    timed_out |-> FALSE, runtime_err |-> TRUE,  ms |-> 0]
RunTimeout == [out |-> "",         timed_out |-> TRUE,  runtime_err |-> FALSE, ms |-> 5000]
RunSpawnFail == [out |-> "",       timed_out |-> FALSE, runtime_err |-> TRUE,  ms |-> 0]
RunSlowPass  == [out |-> "expected", timed_out |-> FALSE, runtime_err |-> FALSE, ms |-> 4500]

\* _safe_rate that cuts the quotient to four decimals instead of rounding it
safe_rate_truncating(passed, total) ==
    IF total > 0 THEN (passed * RateScale) \div total ELSE 0

\* round(passed / total, 4) if total > 0 else 0.0   (round half to even)
safe_rate(passed, total) ==
    IF total > 0
    THEN LET q == (passed * RateScale) \div total
             r == (passed * RateScale) % total
         IN  IF 2 * r < total THEN q
             ELSE IF 2 * r > total THEN q + 1
             ELSE IF q % 2 = 0 THEN q ELSE q + 1
    ELSE 0

zero_result(compiled) ==
    [compiled |-> compiled,
     passed_visible |-> 0, total_visible |-> 0,
     passed_hidden |-> 0, total_hidden |-> 0,
     pass_rate |-> 0, visible_pass_rate |-> 0, hidden_pass_rate |-> 0,
     runtime_error |-> FALSE, timeout |-> FALSE, execution_time_ms |-> 0,
     visible_results |-> <<>>, test_outputs |-> <<>>, test_results |-> <<>>,
     spawned |-> 0]

\* the text kept for one case: got if not tc_timeout else "<timeout>"
CaseGot(i, run) ==
    [src |-> i, text |-> IF run.timed_out THEN "<timeout>" ELSE run.out]

CasePassed(run) == run.out = "expected" /\ ~run.timed_out /\ ~run.runtime_err

\* run_code(student_code, test_cases): runs[i] is what the subprocess of case i does
run_code(student_code, test_cases, runs) ==
    IF ~check_syntax(student_code) THEN zero_result(FALSE)
    ELSE
    LET n      == Len(test_cases)
        passed == [i \in 1..n |-> CasePassed(runs[i])]
        isvis  == [i \in 1..n |-> ~test_cases[i].hidden]
        ishid  == [i \in 1..n |-> test_cases[i].hidden]
        vis    == FilterIdx(isvis, 1, n)
        hid    == FilterIdx(ishid, 1, n)
        total_visible  == Len(vis)
        total_hidden   == Len(hid)
        passed_visible == Cardinality({i \in 1..n : isvis[i] /\ passed[i]})
        passed_hidden  == Cardinality({i \in 1..n : ishid[i] /\ passed[i]})
    IN  [compiled |-> TRUE,
         passed_visible |-> passed_visible, total_visible |-> total_visible,
         passed_hidden |-> passed_hidden, total_hidden |-> total_hidden,
         pass_rate |-> safe_rate(passed_visible + passed_hidden,
                                 total_visible + total_hidden),
         visible_pass_rate |-> safe_rate(passed_visible, total_visible),
         hidden_pass_rate  |-> safe_rate(passed_hidden, total_hidden),
         runtime_error |-> \E i \in 1..n : runs[i].runtime_err,
         timeout       |-> \E i \in 1..n : runs[i].timed_out,
         execution_time_ms |-> SumSeq([i \in 1..n |-> runs[i].ms]),
         visible_results |->
             [j \in 1..Len(vis) |->
                 [case |-> vis[j], got |-> CaseGot(vis[j], runs[vis[j]]),
                  passed |-> passed[vis[j]]]],
         test_outputs |-> [i \in 1..n |-> CaseGot(i, runs[i])],
         test_results |-> passed,
         spawned |-> n]

(***************************************************************************)
(* api/routes_submit.py: _build_visible_results                            *)
(***************************************************************************)
NoOutput == [src |-> 0, text |-> ""]

build_visible_results(all_cases, exec_result) ==
    LET n       == Len(all_cases)
        visible == FilterIdx([i \in 1..n |-> ~all_cases[i].hidden], 1, n)
    IN  [j \in 1..Len(visible) |->
            [case |-> visible[j],
             got |-> IF j <= Len(exec_result.test_outputs)
                     THEN exec_result.test_outputs[j] ELSE NoOutput,
             passed |-> IF j <= Len(exec_result.test_results)
                        THEN exec_result.test_results[j] ELSE FALSE]]

(***************************************************************************)
(* sandbox/anti_gaming.py: hardcoding detection                            *)
(* An Optional[float] is a sequence: <<>> for None, <<x>> for x.           *)
(***************************************************************************)
NoneOpt == <<>>
Some(x) == <<x>>

\* check_hardcoding with the gap compared by >=
check_hardcoding_gap_inclusive(visible_pass_rate, hidden_pass_rate) ==
    IF hidden_pass_rate = NoneOpt
    THEN [flagged |-> FALSE, reason |-> "None", capped_score |-> NoneOpt]
    ELSE IF visible_pass_rate = ANTI_GAME_VISIBLE_FULL
            /\ hidden_pass_rate[1] < ANTI_GAME_HIDDEN_THRESH
    THEN [flagged |-> TRUE, reason |-> "visible_only_pass",
          capped_score |-> Some(ANTI_GAME_SCORE_CAP)]
    ELSE IF (visible_pass_rate - hidden_pass_rate[1]) >= ANTI_GAME_GAP
    THEN [flagged |-> TRUE, reason |-> "suspicious_gap",
          capped_score |-> Some(ANTI_GAME_SCORE_CAP)]
    ELSE [flagged |-> FALSE, reason |-> "None", capped_score |-> NoneOpt]

check_hardcoding(visible_pass_rate, hidden_pass_rate) ==
    IF hidden_pass_rate = NoneOpt
    THEN [flagged |-> FALSE, reason |-> "None", capped_score |-> NoneOpt]
    ELSE IF visible_pass_rate = ANTI_GAME_VISIBLE_FULL
            /\ hidden_pass_rate[1] < ANTI_GAME_HIDDEN_THRESH
    THEN [flagged |-> TRUE, reason |-> "visible_only_pass",
          capped_score |-> Some(ANTI_GAME_SCORE_CAP)]
    ELSE IF (visible_pass_rate - hidden_pass_rate[1]) > ANTI_GAME_GAP
    THEN [flagged |-> TRUE, reason |-> "suspicious_gap",
          capped_score |-> Some(ANTI_GAME_SCORE_CAP)]
    ELSE [flagged |-> FALSE, reason |-> "None", capped_score |-> NoneOpt]

(***************************************************************************)
(* analysis/feature_extractor.py                                           *)
(***************************************************************************)
\* extract_features(code).error_type: "syntax_error" when ast.parse raises,
\* else what _classify_error makes of the analyser's findings
extract_features(code, findings) ==
    IF ~ast_parse(code) THEN "syntax_error" ELSE findings

(***************************************************************************)
(* analysis/capability_engine.py                                           *)
(***************************************************************************)
\* compute_submission_score with the compile check before the timeout/crash check
compute_submission_score_compile_first(pass_rate, compiled, timeout, runtime_error) ==
    IF ~compiled THEN SUBMISSION_SCORE_SYNTAX_ERROR
    ELSE IF timeout \/ runtime_error THEN SUBMISSION_SCORE_TIMEOUT_CRASH
    ELSE IF pass_rate = RateScale THEN SUBMISSION_SCORE_FULL_PASS
    ELSE IF 2 * pass_rate >= RateScale THEN SUBMISSION_SCORE_PARTIAL_HIGH
    ELSE IF pass_rate > 0 THEN SUBMISSION_SCORE_PARTIAL_LOW
    ELSE SUBMISSION_SCORE_ZERO_PASS

compute_submission_score(pass_rate, compiled, timeout, runtime_error) ==
    IF timeout \/ runtime_error THEN SUBMISSION_SCORE_TIMEOUT_CRASH
    ELSE IF ~compiled THEN SUBMISSION_SCORE_SYNTAX_ERROR
    ELSE IF pass_rate = RateScale THEN SUBMISSION_SCORE_FULL_PASS
    ELSE IF 2 * pass_rate >= RateScale THEN SUBMISSION_SCORE_PARTIAL_HIGH
    ELSE IF pass_rate > 0 THEN SUBMISSION_SCORE_PARTIAL_LOW
    ELSE SUBMISSION_SCORE_ZERO_PASS

\* (1 - weight) * old + weight * submission_score, clamped; weight in percent.
\* The code computes in binary floating point, which rounds every result to
\* 53 bits; here the result is cut to the precision of a score, 1/ScoreScale.
ema_update(old_score, submission_score, weight) ==
    LET new_score == ((100 - weight) * old_score + weight * submission_score) \div 100
    IN  Max2(SCORE_MIN, Min2(SCORE_MAX, new_score))

(***************************************************************************)
(* The tables.  problems, submissions and escalation_logs are sequences in *)
(* insertion order; a problem's id is its position in problems.            *)
(* capability_scores maps (student_id, concept) to a score; a missing key  *)
(* is a missing row.                                                       *)
(***************************************************************************)
TC(hidden) == [input |-> "in", output |-> "exp", hidden |-> hidden]

RECURSIVE Reverse(_)
Reverse(s) == IF s = <<>> THEN <<>> ELSE Reverse(Tail(s)) \o <<Head(s)>>

Take(s, n) == SubSeq(s, 1, Min2(n, Len(s)))

ProblemIds(bank) == 1..Len(bank)

(***************************************************************************)
(* ai/escalation.py                                                        *)
(***************************************************************************)
RECURSIVE LeadingFailures(_)
LeadingFailures(recent) ==
    IF recent = <<>> THEN 0
    ELSE IF Head(recent).pass_rate < RateScale
    THEN 1 + LeadingFailures(Tail(recent))
    ELSE 0

\* _count_consecutive_failures: the student's submissions on problems of the
\* concept, newest first, at most ESCALATION_STREAK + 5 of them
count_consecutive_failures(student_id, concept, subs, bank) ==
    LET Mine(sub) == sub.student_id = student_id
                     /\ bank[sub.problem_id].primary_concept = concept
        recent == Take(Reverse(SelectSeq(subs, Mine)), ESCALATION_STREAK + 5)
    IN  LeadingFailures(recent)

get_capability_score(student_id, concept, caps) ==
    IF <<student_id, concept>> \in DOMAIN caps
    THEN caps[<<student_id, concept>>] ELSE INITIAL_SCORE

SURFACE_ERRORS == {"syntax_error", "off_by_one"}

\* escalation_rule with the low-capability rule tried before the streak rule
escalation_rule_low_capability_first(deep_explain_requested, streak, score, compiled, pass_rate, error_type) ==
    IF deep_explain_requested THEN "student_request"
    ELSE IF score < ESCALATION_LOW_CAP THEN "low_capability"
    ELSE IF streak >= ESCALATION_STREAK THEN "streak"
    ELSE IF compiled /\ 2 * pass_rate < RateScale /\ error_type \notin SURFACE_ERRORS
    THEN "conceptual_gap"
    ELSE "None"

\* the rule check_escalation fires, "None" when no rule does
escalation_rule(deep_explain_requested, streak, score, compiled, pass_rate, error_type) ==
    IF deep_explain_requested THEN "student_request"
    ELSE IF streak >= ESCALATION_STREAK THEN "streak"
    ELSE IF score < ESCALATION_LOW_CAP THEN "low_capability"
    ELSE IF compiled /\ 2 * pass_rate < RateScale /\ error_type \notin SURFACE_ERRORS
    THEN "conceptual_gap"
    ELSE "None"

\* escalation_entry that comes out already resolved
escalation_entry_resolved(log_id, student_id, problem_id, submission_id, reason) ==
    [log_id |-> log_id, student_id |-> student_id, problem_id |-> problem_id,
     submission_id |-> submission_id, reason |-> reason, resolved |-> TRUE]

\* the row _log_escalation adds
escalation_entry(log_id, student_id, problem_id, submission_id, reason) ==
    [log_id |-> log_id, student_id |-> student_id, problem_id |-> problem_id,
     submission_id |-> submission_id, reason |-> reason, resolved |-> FALSE]

\* check_escalation: the decision, the streak and score it read, and the rows it
\* leaves in escalation_logs
check_escalation(student_id, problem_id, submission_id, concept, pass_rate, compiled, error_type, deep_explain_requested, subs, bank, caps, logs) ==
    LET streak == count_consecutive_failures(student_id, concept, subs, bank)
        score  == get_capability_score(student_id, concept, caps)
        reason == escalation_rule(deep_explain_requested, streak, score, compiled,
                                  pass_rate, error_type)
    IN  IF reason # "None"
        THEN [should_escalate |-> TRUE, reason |-> reason, streak |-> streak, score |-> score,
              logs |-> Append(logs, escalation_entry(Len(logs) + 1, student_id,
                                                     problem_id, submission_id, reason))]
        ELSE [should_escalate |-> FALSE, reason |-> "None", streak |-> streak,
              score |-> score, logs |-> logs]

(***************************************************************************)
(* ai/validator.py                                                         *)
(* A mini_problem is [statement, concept_tags, difficulty,                 *)
(* reference_solution, test_cases]; statement and reference_solution are   *)
(* character sequences, concept_tags a sequence of concepts.               *)
(***************************************************************************)
VALID_DIFFICULTIES == {"easy", "medium", "hard"}

MAX_MS_BY_DIFFICULTY(difficulty) ==
    CASE difficulty = "easy"   -> 2000
      [] difficulty = "medium" -> 4000
      [] OTHER                 -> 8000

HiddenCount(test_cases) ==
    Cardinality({i \in 1..Len(test_cases) : test_cases[i].hidden})

\* n_hidden / total < HIDDEN_RATIO_MIN
RatioBelowMin(n_hidden, total) ==
    IF total > 0
    THEN n_hidden * HIDDEN_RATIO_MIN_DEN < HIDDEN_RATIO_MIN_NUM * total
    ELSE TRUE

\* step1_structural with the hidden ratio compared by <=
step1_structural_ratio_inclusive(mp) ==
    IF mp.statement = <<>> \/ mp.concept_tags = <<>> \/ mp.difficulty = ""
       \/ mp.reference_solution = <<>> \/ mp.test_cases = <<>>
    THEN "missing_fields"
    ELSE IF Len(Strip(mp.statement)) < 10 THEN "empty_statement"
    ELSE IF mp.difficulty \notin VALID_DIFFICULTIES THEN "missing_fields"
    ELSE IF Len(Strip(mp.reference_solution)) = 0 THEN "missing_fields"
    ELSE IF \E i \in 1..Len(mp.test_cases) :
                ~({"input", "output"} \subseteq DOMAIN mp.test_cases[i])
    THEN "invalid_test_cases"
    ELSE IF HiddenCount(mp.test_cases) * HIDDEN_RATIO_MIN_DEN
                <= HIDDEN_RATIO_MIN_NUM * Len(mp.test_cases)
    THEN "insufficient_hidden"
    ELSE "ok"

step1_structural(mp) ==
    IF mp.statement = <<>> \/ mp.concept_tags = <<>> \/ mp.difficulty = ""
       \/ mp.reference_solution = <<>> \/ mp.test_cases = <<>>
    THEN "missing_fields"
    ELSE IF Len(Strip(mp.statement)) < 10 THEN "empty_statement"
    ELSE IF mp.difficulty \notin VALID_DIFFICULTIES THEN "missing_fields"
    ELSE IF Len(Strip(mp.reference_solution)) = 0 THEN "missing_fields"
    ELSE IF \E i \in 1..Len(mp.test_cases) :
                ~({"input", "output"} \subseteq DOMAIN mp.test_cases[i])
    THEN "invalid_test_cases"
    ELSE IF RatioBelowMin(HiddenCount(mp.test_cases), Len(mp.test_cases))
    THEN "insufficient_hidden"
    ELSE "ok"

step2_execution(result) ==
    IF ~result.compiled THEN "reference_solution_syntax_error"
    ELSE IF result.timeout THEN "reference_solution_timeout"
    ELSE IF result.runtime_error /\ result.pass_rate < RateScale
    THEN "reference_solution_runtime_error"
    ELSE IF result.pass_rate < RateScale THEN "reference_solution_fails"
    ELSE "ok"

step3_complexity(mp, result) ==
    IF result.execution_time_ms > MAX_MS_BY_DIFFICULTY(mp.difficulty)
    THEN "too_slow_for_difficulty"
    ELSE "ok"

\* validate_problem with the execution stage run, and reported, before the
\* structural stage
validate_problem_execution_first(mp, runs) ==
    LET r1 == step1_structural(mp)
        result == run_code(mp.reference_solution, mp.test_cases, runs)
        r2 == step2_execution(result)
        r3 == step3_complexity(mp, result)
    IN  IF r2 # "ok"
        THEN [ok |-> FALSE, reason |-> r2, stages |-> <<"execution">>,
              spawned |-> result.spawned]
        ELSE IF r1 # "ok"
        THEN [ok |-> FALSE, reason |-> r1, stages |-> <<"execution", "structural">>,
              spawned |-> result.spawned]
        ELSE IF r3 # "ok"
        THEN [ok |-> FALSE, reason |-> r3,
              stages |-> <<"execution", "structural", "complexity">>,
              spawned |-> result.spawned]
        ELSE [ok |-> TRUE, reason |-> "ok",
              stages |-> <<"execution", "structural", "complexity">>,
              spawned |-> result.spawned]

\* validate_problem: (is_valid, reason), and the stages that ran
validate_problem(mp, runs) ==
    LET r1 == step1_structural(mp)
        result == run_code(mp.reference_solution, mp.test_cases, runs)
        r2 == step2_execution(result)
        r3 == step3_complexity(mp, result)
    IN  IF r1 # "ok"
        THEN [ok |-> FALSE, reason |-> r1, stages |-> <<"structural">>, spawned |-> 0]
        ELSE IF r2 # "ok"
        THEN [ok |-> FALSE, reason |-> r2, stages |-> <<"structural", "execution">>,
              spawned |-> result.spawned]
        ELSE IF r3 # "ok"
        THEN [ok |-> FALSE, reason |-> r3,
              stages |-> <<"structural", "execution", "complexity">>,
              spawned |-> result.spawned]
        ELSE [ok |-> TRUE, reason |-> "ok",
              stages |-> <<"structural", "execution", "complexity">>,
              spawned |-> result.spawned]

(***************************************************************************)
(* analysis/question_selector.py                                           *)
(* A query without a total order (ties of difficulty_score, or no          *)
(* order_by at all) may return its rows in any order, so a selection is    *)
(* the set of results the query order allows.                              *)
(***************************************************************************)
classify_zone(score) ==
    IF score < ZONE_TOO_DIFFICULT THEN 0
    ELSE IF score < ZONE_EASY_MAX THEN 1
    ELSE IF score < ZONE_MEDIUM_MAX THEN 2
    ELSE 3

band_to_difficulty(band) ==
    CASE band = 0 -> DIFFICULTY_EASY
      [] band = 1 -> DIFFICULTY_EASY
      [] band = 2 -> DIFFICULTY_MEDIUM
      [] band = 3 -> DIFFICULTY_HARD

\* a seen query that misses the row added last, as if it were not yet flushed
get_seen_problem_ids_without_last(student_id, subs) ==
    {subs[i].problem_id : i \in {j \in 1..(Len(subs) - 1) : subs[j].student_id = student_id}}

\* _get_seen_problem_ids: the problems the student has a Submission row for
get_seen_problem_ids(student_id, subs) ==
    {subs[i].problem_id : i \in {j \in 1..Len(subs) : subs[j].student_id = student_id}}

\* the rows a query ordered by difficulty_score can put first
EasiestOf(ids, bank) ==
    {p \in ids : \A q \in ids : bank[p].difficulty_score <= bank[q].difficulty_score}

\* _fetch_problem: the problems it can return; the empty set stands for None
fetch_problem(concept, difficulty, seen_ids, bank) ==
    LET unseen == {p \in ProblemIds(bank) :
                      /\ bank[p].difficulty = difficulty
                      /\ bank[p].validated
                      /\ bank[p].primary_concept = concept
                      /\ p \notin seen_ids}
        broad  == {p \in ProblemIds(bank) :
                      /\ bank[p].difficulty = difficulty
                      /\ bank[p].validated
                      /\ p \notin seen_ids
                      /\ \E i \in 1..Len(bank[p].concept_tags) :
                             bank[p].concept_tags[i] = concept}
    IN  IF unseen # {} THEN EasiestOf(unseen, bank) ELSE EasiestOf(broad, bank)

\* list(range(target_band, BAND_MIN - 1, -1))
band_fallback_sequence(target_band) ==
    [i \in 1..(target_band - BAND_MIN + 1) |-> target_band - i + 1]

SelectionResult(problem_id, concept, difficulty, band, zone, band_offset, mode, fallback_used) ==
    [problem_id |-> problem_id, concept |-> concept, difficulty |-> difficulty,
     band |-> band, zone |-> zone, band_offset |-> band_offset,
     selection_mode |-> mode, fallback_used |-> fallback_used]

RECURSIVE zone_loop(_, _, _, _, _, _, _)
\* the loop of _select_zone_based over the bands still to try
zone_loop(bands, target_band, base_zone, offset, concept, seen_ids, bank) ==
    IF bands = <<>>
    THEN {SelectionResult(NoneOpt, concept, band_to_difficulty(target_band), target_band,
                          base_zone, offset, "zone_based", TRUE)}
    ELSE LET band == Head(bands)
             fetch_concept    == IF band = 0 THEN get_prerequisite(concept) ELSE concept
             fetch_difficulty == IF band = 0 THEN DIFFICULTY_EASY ELSE band_to_difficulty(band)
             found == fetch_problem(fetch_concept, fetch_difficulty, seen_ids, bank)
         IN  IF found # {}
             THEN {SelectionResult(Some(p), fetch_concept, fetch_difficulty, band, base_zone,
                                   offset, "zone_based", band # target_band) : p \in found}
             ELSE zone_loop(Tail(bands), target_band, base_zone, offset, concept,
                            seen_ids, bank)

select_zone_based(concept, student_score, difficulty_signal, seen_ids, bank) ==
    LET base_zone   == classify_zone(student_score)
        offset      == BAND_OFFSET(difficulty_signal)
        target_band == Max2(BAND_MIN, Min2(BAND_MAX, base_zone + offset))
    IN  zone_loop(band_fallback_sequence(target_band), target_band, base_zone, offset,
                  concept, seen_ids, bank)

\* _select_gaussian: every candidate has the student's score for the one concept,
\* hence the same utility; the strict "utility > best_utility" keeps the first
\* unseen row of an unordered query
select_gaussian(concept, seen_ids, bank) ==
    LET unseen == {p \in ProblemIds(bank) :
                      /\ bank[p].validated
                      /\ bank[p].primary_concept = concept
                      /\ p \notin seen_ids}
    IN  IF unseen # {}
        THEN {SelectionResult(Some(p), bank[p].primary_concept, bank[p].difficulty,
                              0 - 1, 0 - 1, 0, "gaussian", FALSE) : p \in unseen}
        ELSE {SelectionResult(NoneOpt, concept, DIFFICULTY_MEDIUM, 0 - 1, 0 - 1, 0,
                              "gaussian", TRUE)}

select_next_problem(student_id, concept, student_score, difficulty_signal, gaussian, subs, bank) ==
    LET seen_ids == get_seen_problem_ids(student_id, subs)
    IN  IF gaussian
        THEN select_gaussian(concept, seen_ids, bank)
        ELSE select_zone_based(concept, student_score, difficulty_signal, seen_ids, bank)

\* get_next_problem: the results it can return, each None or a SelectionResult
get_next_problem(student_id, concept, difficulty_signal, gaussian, subs, bank, caps) ==
    LET student_score == get_capability_score(student_id, concept, caps)
        results == select_next_problem(student_id, concept, student_score,
                                       difficulty_signal, gaussian, subs, bank)
    IN  {IF r.problem_id = NoneOpt THEN NoneOpt ELSE Some(r) : r \in results}

(***************************************************************************)
(* sandbox/anti_gaming.py: rapid resubmit.  Times are ticks.               *)
(***************************************************************************)
CooldownTicks == ANTI_GAME_COOLDOWN_S * TicksPerSecond
WindowTicks   == ANTI_GAME_WINDOW_MIN * 60 * TicksPerSecond

RapidResubmitResult(flagged, reason, cooldown_active, remaining) ==
    [flagged |-> flagged, reason |-> reason, cooldown_active |-> cooldown_active,
     cooldown_seconds_remaining |-> remaining]

\* the student's submissions to the problem with submitted_at >= window_start
recent_submissions(student_id, problem_id, subs, t) ==
    LET InWindow(sub) == /\ sub.student_id = student_id
                         /\ sub.problem_id = problem_id
                         /\ sub.submitted_at >= t - WindowTicks
    IN  SelectSeq(subs, InWindow)

\* check_rapid_resubmit from the query on: the result and the store it leaves
rapid_resubmit_query(student_id, problem_id, current_code, subs, store, t) ==
    LET recent == recent_submissions(student_id, problem_id, subs, t)
        code_hashes == {hash_code(recent[i].code) : i \in 1..Len(recent)}
                       \cup {hash_code(current_code)}
    IN  IF Len(recent) < ANTI_GAME_SUBMIT_MAX
        THEN [result |-> RapidResubmitResult(FALSE, "None", FALSE, 0), store |-> store]
        ELSE IF Cardinality(code_hashes) <= ANTI_GAME_DISTINCT_MIN
        THEN [result |-> RapidResubmitResult(TRUE, "rapid_resubmit", TRUE,
                                             ANTI_GAME_COOLDOWN_S),
              store  |-> [k \in DOMAIN store \cup {student_id} |->
                             IF k = student_id THEN t + CooldownTicks ELSE store[k]]]
        ELSE [result |-> RapidResubmitResult(FALSE, "None", FALSE, 0), store |-> store]

\* int((expiry - now).total_seconds())
seconds_remaining(expiry, t) == (expiry - t) \div TicksPerSecond

\* _check_cooldown: the result and the store it leaves
check_cooldown(student_id, store, t) ==
    IF student_id \notin DOMAIN store
    THEN [result |-> RapidResubmitResult(FALSE, "None", FALSE, 0), store |-> store]
    ELSE IF t < store[student_id]
    THEN [result |-> RapidResubmitResult(TRUE, "rapid_resubmit", TRUE,
                                         seconds_remaining(store[student_id], t)),
          store  |-> store]
    ELSE [result |-> RapidResubmitResult(FALSE, "None", FALSE, 0),
          store  |-> [k \in DOMAIN store \ {student_id} |-> store[k]]]

check_rapid_resubmit(student_id, problem_id, current_code, subs, store, t) ==
    LET cooldown_result == check_cooldown(student_id, store, t)
    IN  IF cooldown_result.result.cooldown_active
        THEN cooldown_result
        ELSE rapid_resubmit_query(student_id, problem_id, current_code, subs,
                                  cooldown_result.store, t)

(***************************************************************************)
(* api/routes_submit.py: helpers                                           *)
(***************************************************************************)
\* round(num / den, digits) as an integer in units of 1/scale (round half to even)
RoundHalfEven(num, den, scale) ==
    LET q == (num * scale) \div den
        r == (num * scale) % den
    IN  IF 2 * r < den THEN q
        ELSE IF 2 * r > den THEN q + 1
        ELSE IF q % 2 = 0 THEN q ELSE q + 1

\* round(score, 4) of a capability score, in units of 1/10000
round4(score) == RoundHalfEven(score, ScoreScale \div RateScale, 1)

DIFF_SCORE(difficulty) ==
    CASE difficulty = "easy"   -> 25
      [] difficulty = "medium" -> 55
      [] difficulty = "hard"   -> 80
      [] OTHER                 -> 25

\* a row of problems; difficulty_score in 1/100, hidden_ratio in 1/1000
Problem(primary_concept, concept_tags, difficulty, difficulty_score, test_cases, hidden_ratio, created_by) ==
    [primary_concept |-> primary_concept, concept_tags |-> concept_tags,
     difficulty |-> difficulty, difficulty_score |-> difficulty_score,
     test_cases |-> test_cases, hidden_ratio |-> hidden_ratio,
     created_by |-> created_by, validated |-> TRUE]

\* enforce_hidden_ratio (database/models.py): the insert is refused
enforce_hidden_ratio(target) ==
    target.hidden_ratio * HIDDEN_RATIO_MIN_DEN < HIDDEN_RATIO_MIN_NUM * 1000

\* a store that inserts whatever Brain B generated, whatever the validator said
store_problem_unvalidated(mini_problem, concept, runs, bank) ==
    LET test_cases == mini_problem.test_cases
        total      == Len(test_cases)
    IN  [bank |-> Append(bank,
                         Problem(concept, mini_problem.concept_tags, mini_problem.difficulty,
                                 DIFF_SCORE(mini_problem.difficulty), test_cases,
                                 IF total > 0
                                 THEN RoundHalfEven(HiddenCount(test_cases), total, 1000)
                                 ELSE 0,
                                 "brain_b")),
         stored |-> TRUE, raised |-> FALSE,
         validation |-> validate_problem(mini_problem, runs)]

\* _store_problem_from_brain_b: the bank it leaves, the validation it made, and
\* whether the insert raised
store_problem_from_brain_b(mini_problem, concept, runs, bank) ==
    LET v == validate_problem(mini_problem, runs)
        test_cases == mini_problem.test_cases
        total      == Len(test_cases)
        n_hidden   == HiddenCount(test_cases)
        new_problem == Problem(concept, mini_problem.concept_tags, mini_problem.difficulty,
                               DIFF_SCORE(mini_problem.difficulty), test_cases,
                               IF total > 0 THEN RoundHalfEven(n_hidden, total, 1000) ELSE 0,
                               "brain_b")
    IN  IF ~v.ok
        THEN [bank |-> bank, stored |-> FALSE, raised |-> FALSE, validation |-> v]
        ELSE IF enforce_hidden_ratio(new_problem)
        THEN [bank |-> bank, stored |-> FALSE, raised |-> TRUE, validation |-> v]
        ELSE [bank |-> Append(bank, new_problem), stored |-> TRUE, raised |-> FALSE,
              validation |-> v]

\* _persist_submission: the row it adds
SubmissionRow(submission_id, student_id, problem_id, code, exec_result, effective_pass_rate, error_type, difficulty_signal, brain_b_feedback, escalation, gaming, t) ==
    [submission_id |-> submission_id, student_id |-> student_id, problem_id |-> problem_id,
     code |-> code, pass_rate |-> effective_pass_rate,
     visible_pass_rate |-> exec_result.visible_pass_rate,
     hidden_pass_rate |-> exec_result.hidden_pass_rate,
     error_type |-> error_type, compiled |-> exec_result.compiled,
     brain_a_feedback |-> difficulty_signal, brain_b_feedback |-> brain_b_feedback,
     escalated |-> escalation.should_escalate, escalation_reason |-> escalation.reason,
     gaming_flagged |-> gaming.flagged, gaming_reason |-> gaming.reason,
     submitted_at |-> t]

\* update_capability: old score, new score, and the table it leaves
update_capability(student_id, concept, pass_rate, compiled, timeout, runtime_error, error_type, caps) ==
    LET submission_score == compute_submission_score(pass_rate, compiled, timeout,
                                                     runtime_error)
        resolved_error_type == IF error_type \in ErrorTypes THEN error_type ELSE "none"
        weight    == ConceptWeight(resolved_error_type, concept)
        old_score == get_capability_score(student_id, concept, caps)
        new_score == ema_update(old_score, submission_score, weight)
        key       == <<student_id, concept>>
    IN  [concept |-> concept, old_score |-> old_score, new_score |-> new_score,
         submission_score |-> submission_score,
         caps |-> [k \in DOMAIN caps \cup {key} |-> IF k = key THEN new_score ELSE caps[k]]]

(***************************************************************************)
(* State                                                                   *)
(***************************************************************************)
VARIABLES
    now,                \* wall-clock time, in ticks
    cooldown_store,     \* anti_gaming._cooldown_store: student_id -> expiry
    problems,           \* table problems
    submissions,        \* table submissions, in order of submitted_at
    capability_scores,  \* table capability_scores: (student_id, concept) -> score
    escalation_logs,    \* table escalation_logs
    foreign_keys,       \* whether the SQLite build enforces PRAGMA foreign_keys=ON
    gaussian_mode,      \* the setting of USE_GAUSSIAN the deployment runs with
    response,           \* the last response sent, with what the handler computed
    served,             \* how often each (student_id, problem_id) was served
    threads             \* the requests in flight, for the handlers taken step by step

vars == <<now, cooldown_store, problems, submissions, capability_scores, escalation_logs,
          foreign_keys, gaussian_mode, response, served, threads>>

tables == <<problems, submissions, capability_scores, escalation_logs>>

Students == {"s1", "s2"}

VisibleCase == TC(FALSE)
HiddenCase  == TC(TRUE)

\* database/seed.py, on the concepts of the model: P001 (loops), P002 and P004
\* (arrays); every seed problem lists its visible cases before its hidden ones
SeedProblems ==
    << Problem("loops",  <<"loops">>,  "easy", 20,
               <<VisibleCase, VisibleCase, HiddenCase, HiddenCase>>, 500, "faculty"),
       Problem("arrays", <<"arrays">>, "easy", 25,
               <<VisibleCase, VisibleCase, HiddenCase, HiddenCase>>, 500, "faculty"),
       Problem("arrays", <<"arrays", "loops">>, "easy", 30,
               <<VisibleCase, VisibleCase, HiddenCase, HiddenCase>>, 500, "faculty") >>

EmptyMap == [k \in {} |-> 0]

NoResponse == [kind |-> "none"]

TotalServed == LET RECURSIVE Sum(_)
                   Sum(ks) == IF ks = {} THEN 0
                              ELSE LET k == CHOOSE x \in ks : TRUE
                                   IN  served[k] + Sum(ks \ {k})
               IN  Sum(DOMAIN served)

\* one more serving of the problem to the student
Serve(student_id, next) ==
    IF next = NoneOpt THEN served
    ELSE LET key == <<student_id, next[1].problem_id[1]>>
         IN  [k \in DOMAIN served \cup {key} |->
                 IF k = key
                 THEN (IF key \in DOMAIN served THEN served[key] ELSE 0) + 1
                 ELSE served[k]]

InitDatabase ==
    /\ problems = SeedProblems
    /\ submissions = <<>>
    /\ capability_scores = EmptyMap
    /\ escalation_logs = <<>>

InitCommon ==
    /\ now = 0
    /\ cooldown_store = EmptyMap
    /\ InitDatabase
    /\ foreign_keys \in BOOLEAN
    /\ gaussian_mode \in BOOLEAN
    /\ response = NoResponse
    /\ served = EmptyMap
    /\ threads = EmptyMap

(***************************************************************************)
(* POST /submit (api/routes_submit.py, submit_code), the whole handler.    *)
(* runs and ref_runs are what the sandbox subprocesses do, findings is     *)
(* what the analyser of extract_features makes of a code that parses,      *)
(* difficulty_signal is Brain A's answer and mini_problem is Brain B's     *)
(* (None or a parsed mini_problem).                                        *)
(***************************************************************************)
\* a handler that runs the code before it checks the cooldown
SubmitBase_executed_first(student_id, problem_id, code, deep_explain) ==
    [kind |-> "submit", status |-> 0, student_id |-> student_id, problem_id |-> problem_id,
     code |-> code, deep_explain |-> deep_explain, at |-> now,
     prior_store |-> cooldown_store,
     cooldown_active |-> FALSE, cooldown_seconds_remaining |-> 0,
     executed |-> TRUE, exec_result |-> zero_result(FALSE),
     submission_id |-> 0, pass_rate |-> 0, visible_results |-> <<>>,
     difficulty_signal |-> "", deep_explanation |-> NoneOpt, next_problem |-> NoneOpt,
     capability_update |-> NoneOpt, escalated |-> FALSE, gaming_flagged |-> FALSE,
     gaming |-> check_hardcoding(0, NoneOpt), error_type |-> "none",
     escalation |-> NoneOpt, validation |-> NoneOpt, selection |-> NoneOpt,
     bank_before |-> problems, logs_before |-> escalation_logs]

\* the response of the handler before any of its steps
SubmitBase(student_id, problem_id, code, deep_explain) ==
    [kind |-> "submit", status |-> 0, student_id |-> student_id, problem_id |-> problem_id,
     code |-> code, deep_explain |-> deep_explain, at |-> now,
     prior_store |-> cooldown_store,
     cooldown_active |-> FALSE, cooldown_seconds_remaining |-> 0,
     executed |-> FALSE, exec_result |-> zero_result(FALSE),
     submission_id |-> 0, pass_rate |-> 0, visible_results |-> <<>>,
     difficulty_signal |-> "", deep_explanation |-> NoneOpt, next_problem |-> NoneOpt,
     capability_update |-> NoneOpt, escalated |-> FALSE, gaming_flagged |-> FALSE,
     gaming |-> check_hardcoding(0, NoneOpt), error_type |-> "none",
     escalation |-> NoneOpt, validation |-> NoneOpt, selection |-> NoneOpt,
     bank_before |-> problems, logs_before |-> escalation_logs]

\* the handler with a capability update that scores a "harder" signal as a full pass
submit_code_signal_scored(student_id, problem_id, code, deep_explain, runs, findings, difficulty_signal, mini_problem, ref_runs) ==
    LET base == SubmitBase(student_id, problem_id, code, deep_explain) IN
    IF student_id \notin Students \/ problem_id \notin ProblemIds(problems)
    THEN /\ response' = [base EXCEPT !.status = 404]
         /\ UNCHANGED <<now, cooldown_store, tables, foreign_keys, gaussian_mode, served,
                        threads>>
    ELSE
    LET problem    == problems[problem_id]
        all_cases  == problem.test_cases
        concept    == problem.primary_concept
        gaming_pre == check_rapid_resubmit(student_id, problem_id, code, submissions,
                                           cooldown_store, now)
    IN
    IF gaming_pre.result.cooldown_active
    THEN /\ cooldown_store' = gaming_pre.store
         /\ response' = [base EXCEPT !.status = 429, !.cooldown_active = TRUE,
                             !.cooldown_seconds_remaining =
                                 gaming_pre.result.cooldown_seconds_remaining]
         /\ UNCHANGED <<now, tables, foreign_keys, gaussian_mode, served, threads>>
    ELSE
    \* each value below is computed once, in the order of the handler's steps
    \E exec_result \in {run_code(code, all_cases, runs)} :
    \E gaming_post \in {check_hardcoding(exec_result.visible_pass_rate,
                                         Some(exec_result.hidden_pass_rate))} :
    \E effective_pass_rate \in
           {IF gaming_post.flagged
               /\ gaming_post.reason \in {"visible_only_pass", "suspicious_gap"}
            THEN Min2(exec_result.pass_rate, ANTI_GAME_SCORE_CAP)
            ELSE exec_result.pass_rate} :
    \E error_type \in {extract_features(code, findings)} :
    \E submission_id \in {Len(submissions) + 1} :
    \E escalation \in {check_escalation(student_id, problem_id, submission_id, concept,
                                        effective_pass_rate, exec_result.compiled,
                                        error_type, deep_explain, submissions, problems,
                                        capability_scores, escalation_logs)} :
    \* the audit row names a submission that is not yet in submissions
    \E integrity_error \in {escalation.should_escalate /\ foreign_keys} :
    \E with_mini \in {escalation.should_escalate /\ mini_problem # NoneOpt} :
    \E stored \in {IF with_mini
                   THEN store_problem_from_brain_b(mini_problem[1], concept, ref_runs,
                                                   problems)
                   ELSE [bank |-> problems, stored |-> FALSE, raised |-> FALSE,
                         validation |-> NoneOpt]} :
    \E cap_update \in {update_capability(student_id, concept,
                                         IF difficulty_signal = "harder" THEN RateScale
                                         ELSE effective_pass_rate,
                                         exec_result.compiled, exec_result.timeout,
                                         exec_result.runtime_error, error_type,
                                         capability_scores)} :
    \E row \in {SubmissionRow(submission_id, student_id, problem_id, code, exec_result,
                              effective_pass_rate, error_type, difficulty_signal,
                              IF escalation.should_escalate
                              THEN Some([has_mini_problem |-> mini_problem # NoneOpt])
                              ELSE NoneOpt,
                              escalation, gaming_post, now)} :
    \E ran \in {[base EXCEPT !.executed = TRUE, !.exec_result = exec_result,
                     !.gaming = gaming_post, !.error_type = error_type,
                     !.escalation = Some([should_escalate |-> escalation.should_escalate,
                                          reason |-> escalation.reason,
                                          streak |-> escalation.streak,
                                          score |-> escalation.score]),
                     !.validation = IF with_mini THEN Some(stored.validation)
                                    ELSE NoneOpt]} :
    IF integrity_error \/ stored.raised
    THEN \* the exception leaves the handler; get_db rolls the session back
         /\ cooldown_store' = gaming_pre.store
         /\ response' = [ran EXCEPT !.status = 500, !.escalation = NoneOpt,
                             !.validation = NoneOpt]
         /\ UNCHANGED <<now, tables, foreign_keys, gaussian_mode, served, threads>>
    ELSE
    \E next \in get_next_problem(student_id, concept, "same", gaussian_mode,
                                 Append(submissions, row), stored.bank, cap_update.caps) :
         /\ cooldown_store' = gaming_pre.store
         /\ escalation_logs' = escalation.logs
         /\ problems' = stored.bank
         /\ capability_scores' = cap_update.caps
         /\ submissions' = Append(submissions, row)
         /\ served' = Serve(student_id, next)
         /\ response' =
                [ran EXCEPT !.status = 200, !.submission_id = submission_id,
                     !.pass_rate = effective_pass_rate,
                     !.visible_results = build_visible_results(all_cases, exec_result),
                     !.difficulty_signal = difficulty_signal,
                     !.deep_explanation =
                         IF escalation.should_escalate
                         THEN Some([mini_problem |-> mini_problem]) ELSE NoneOpt,
                     !.next_problem = IF next = NoneOpt THEN NoneOpt
                                      ELSE next[1].problem_id,
                     !.selection = next,
                     !.capability_update =
                         Some([concept |-> cap_update.concept,
                               old_score |-> round4(cap_update.old_score),
                               new_score |-> round4(cap_update.new_score)]),
                     !.escalated = escalation.should_escalate,
                     !.gaming_flagged = gaming_post.flagged]
         /\ UNCHANGED <<now, foreign_keys, gaussian_mode, threads>>

submit_code(student_id, problem_id, code, deep_explain, runs, findings, difficulty_signal, mini_problem, ref_runs) ==
    LET base == SubmitBase(student_id, problem_id, code, deep_explain) IN
    IF student_id \notin Students \/ problem_id \notin ProblemIds(problems)
    THEN /\ response' = [base EXCEPT !.status = 404]
         /\ UNCHANGED <<now, cooldown_store, tables, foreign_keys, gaussian_mode, served,
                        threads>>
    ELSE
    LET problem    == problems[problem_id]
        all_cases  == problem.test_cases
        concept    == problem.primary_concept
        gaming_pre == check_rapid_resubmit(student_id, problem_id, code, submissions,
                                           cooldown_store, now)
    IN
    IF gaming_pre.result.cooldown_active
    THEN /\ cooldown_store' = gaming_pre.store
         /\ response' = [base EXCEPT !.status = 429, !.cooldown_active = TRUE,
                             !.cooldown_seconds_remaining =
                                 gaming_pre.result.cooldown_seconds_remaining]
         /\ UNCHANGED <<now, tables, foreign_keys, gaussian_mode, served, threads>>
    ELSE
    \* each value below is computed once, in the order of the handler's steps
    \E exec_result \in {run_code(code, all_cases, runs)} :
    \E gaming_post \in {check_hardcoding(exec_result.visible_pass_rate,
                                         Some(exec_result.hidden_pass_rate))} :
    \E effective_pass_rate \in
           {IF gaming_post.flagged
               /\ gaming_post.reason \in {"visible_only_pass", "suspicious_gap"}
            THEN Min2(exec_result.pass_rate, ANTI_GAME_SCORE_CAP)
            ELSE exec_result.pass_rate} :
    \E error_type \in {extract_features(code, findings)} :
    \E submission_id \in {Len(submissions) + 1} :
    \E escalation \in {check_escalation(student_id, problem_id, submission_id, concept,
                                        effective_pass_rate, exec_result.compiled,
                                        error_type, deep_explain, submissions, problems,
                                        capability_scores, escalation_logs)} :
    \* the audit row names a submission that is not yet in submissions
    \E integrity_error \in {escalation.should_escalate /\ foreign_keys} :
    \E with_mini \in {escalation.should_escalate /\ mini_problem # NoneOpt} :
    \E stored \in {IF with_mini
                   THEN store_problem_from_brain_b(mini_problem[1], concept, ref_runs,
                                                   problems)
                   ELSE [bank |-> problems, stored |-> FALSE, raised |-> FALSE,
                         validation |-> NoneOpt]} :
    \E cap_update \in {update_capability(student_id, concept, effective_pass_rate,
                                         exec_result.compiled, exec_result.timeout,
                                         exec_result.runtime_error, error_type,
                                         capability_scores)} :
    \E row \in {SubmissionRow(submission_id, student_id, problem_id, code, exec_result,
                              effective_pass_rate, error_type, difficulty_signal,
                              IF escalation.should_escalate
                              THEN Some([has_mini_problem |-> mini_problem # NoneOpt])
                              ELSE NoneOpt,
                              escalation, gaming_post, now)} :
    \E ran \in {[base EXCEPT !.executed = TRUE, !.exec_result = exec_result,
                     !.gaming = gaming_post, !.error_type = error_type,
                     !.escalation = Some([should_escalate |-> escalation.should_escalate,
                                          reason |-> escalation.reason,
                                          streak |-> escalation.streak,
                                          score |-> escalation.score]),
                     !.validation = IF with_mini THEN Some(stored.validation)
                                    ELSE NoneOpt]} :
    IF integrity_error \/ stored.raised
    THEN \* the exception leaves the handler; get_db rolls the session back
         /\ cooldown_store' = gaming_pre.store
         /\ response' = [ran EXCEPT !.status = 500, !.escalation = NoneOpt,
                             !.validation = NoneOpt]
         /\ UNCHANGED <<now, tables, foreign_keys, gaussian_mode, served, threads>>
    ELSE
    \E next \in get_next_problem(student_id, concept, "same", gaussian_mode,
                                 Append(submissions, row), stored.bank, cap_update.caps) :
         /\ cooldown_store' = gaming_pre.store
         /\ escalation_logs' = escalation.logs
         /\ problems' = stored.bank
         /\ capability_scores' = cap_update.caps
         /\ submissions' = Append(submissions, row)
         /\ served' = Serve(student_id, next)
         /\ response' =
                [ran EXCEPT !.status = 200, !.submission_id = submission_id,
                     !.pass_rate = effective_pass_rate,
                     !.visible_results = build_visible_results(all_cases, exec_result),
                     !.difficulty_signal = difficulty_signal,
                     !.deep_explanation =
                         IF escalation.should_escalate
                         THEN Some([mini_problem |-> mini_problem]) ELSE NoneOpt,
                     !.next_problem = IF next = NoneOpt THEN NoneOpt
                                      ELSE next[1].problem_id,
                     !.selection = next,
                     !.capability_update =
                         Some([concept |-> cap_update.concept,
                               old_score |-> round4(cap_update.old_score),
                               new_score |-> round4(cap_update.new_score)]),
                     !.escalated = escalation.should_escalate,
                     !.gaming_flagged = gaming_post.flagged]
         /\ UNCHANGED <<now, foreign_keys, gaussian_mode, threads>>

(***************************************************************************)
(* GET /problems/next (api/routes_problems.py, get_next_adaptive_problem)  *)
(***************************************************************************)
get_next_adaptive_problem(student_id, concept) ==
    \E result \in get_next_problem(student_id, concept, "same", gaussian_mode,
                                   submissions, problems, capability_scores) :
        /\ served' = Serve(student_id, result)
        /\ response' = [kind |-> "next", status |-> IF result = NoneOpt THEN 404 ELSE 200,
                        student_id |-> student_id, concept |-> concept,
                        next_problem |-> IF result = NoneOpt THEN NoneOpt
                                         ELSE result[1].problem_id,
                        selection |-> result]
        /\ UNCHANGED <<now, cooldown_store, tables, foreign_keys, gaussian_mode, threads>>

(***************************************************************************)
(* POST /faculty/escalations/{log_id}/resolve (api/routes_faculty.py)      *)
(***************************************************************************)
\* resolve_escalation: whether the entry was found, and the rows it leaves
resolve_escalation(log_id, logs) ==
    IF log_id \in 1..Len(logs)
    THEN [found |-> TRUE, logs |-> [logs EXCEPT ![log_id].resolved = TRUE]]
    ELSE [found |-> FALSE, logs |-> logs]

resolve_escalation_entry(log_id) ==
    LET r == resolve_escalation(log_id, escalation_logs)
    IN  /\ escalation_logs' = r.logs
        /\ response' = [kind |-> "resolve", status |-> IF r.found THEN 200 ELSE 404,
                        log_id |-> log_id]
        /\ UNCHANGED <<now, cooldown_store, problems, submissions, capability_scores,
                       foreign_keys, gaussian_mode, served, threads>>

\* time passes between two requests
advance_clock(instants) ==
    /\ \E t \in instants : t > now /\ now' = t
    /\ UNCHANGED <<cooldown_store, tables, foreign_keys, gaussian_mode, response, served,
                   threads>>

(***************************************************************************)
(* Inputs                                                                  *)
(***************************************************************************)
MaxCases == 5

AllRuns(run)  == [i \in 1..MaxCases |-> run]
AllPass       == AllRuns(RunPass)
AllWrong      == AllRuns(RunWrong)

CodeC       == <<"c">>
CodeCPadded == <<" ", "c", " ">>
CodeD       == <<"d">>

(***************************************************************************)
(* Selection: GET /problems/next and POST /submit by one student           *)
(***************************************************************************)
MaxServed     == 3
MaxSelectSubs == 3

SelectInit == InitCommon

SelectNext ==
    \/ /\ TotalServed < MaxServed
       /\ \E concept \in {"loops", "arrays"} : get_next_adaptive_problem("s1", concept)
    \/ /\ Len(submissions) < MaxSelectSubs
       /\ TotalServed < MaxServed
       /\ \E problem_id \in ProblemIds(problems), runs \in {AllPass, AllWrong} :
              submit_code("s1", problem_id, CodeC, FALSE, runs, "none", "same",
                          NoneOpt, AllPass)

SelectSpec == SelectInit /\ [][SelectNext]_vars

\* C1: the selector never serves the same problem_id twice to the same student,
\* in either selection mode, over any sequence of selections and submissions
C1_NeverServedTwice == \A k \in DOMAIN served : served[k] <= 1

\* a problem was served to a student
C1_Served == \E k \in DOMAIN served : served[k] >= 1

(***************************************************************************)
(* Brain B's mini problems and the bank                                    *)
(***************************************************************************)
StatementText == [i \in 1..10 |-> "x"]

MiniProblem(difficulty, test_cases) ==
    [statement |-> StatementText, concept_tags |-> <<"loops">>, difficulty |-> difficulty,
     reference_solution |-> <<"r">>, test_cases |-> test_cases]

\* half of the cases hidden, a hidden case listed first
MiniHiddenFirst == MiniProblem("easy", <<HiddenCase, VisibleCase>>)
\* one hidden case of four
MiniFewHidden   == MiniProblem("easy", <<VisibleCase, VisibleCase, VisibleCase, HiddenCase>>)

\* the hidden case fails, the visible case passes
HiddenWrong == [i \in 1..MaxCases |-> IF i = 1 THEN RunWrong ELSE RunPass]

MaxBankSubs == 3

BankRequests ==
    { [deep_explain |-> FALSE, runs |-> AllPass,     mini_problem |-> NoneOpt,
       ref_runs |-> AllPass],
      [deep_explain |-> TRUE,  runs |-> HiddenWrong, mini_problem |-> Some(MiniHiddenFirst),
       ref_runs |-> AllPass],
      [deep_explain |-> TRUE,  runs |-> AllPass,     mini_problem |-> Some(MiniFewHidden),
       ref_runs |-> AllPass],
      [deep_explain |-> TRUE,  runs |-> HiddenWrong, mini_problem |-> Some(MiniHiddenFirst),
       ref_runs |-> AllWrong],
      [deep_explain |-> TRUE,  runs |-> AllPass,     mini_problem |-> NoneOpt,
       ref_runs |-> AllPass] }

BankInit == InitCommon /\ gaussian_mode = USE_GAUSSIAN

BankNext ==
    /\ Len(submissions) < MaxBankSubs
    /\ \E req \in BankRequests :
       \E problem_id \in {p \in ProblemIds(problems) : problems[p].primary_concept = "loops"} :
           submit_code("s1", problem_id, CodeC, req.deep_explain, req.runs, "none", "same",
                       req.mini_problem, req.ref_runs)

BankSpec == BankInit /\ [][BankNext]_vars

C2_HiddenFirstServed ==
    /\ response.kind = "submit" /\ response.status = 200
    /\ problems[response.problem_id].test_cases[1].hidden
    /\ Len(response.visible_results) >= 1

MaxTotal == 5

apply_check_hardcoding(passed_visible, total_visible, passed_hidden, total_hidden) ==
    LET visible_pass_rate == safe_rate(passed_visible, total_visible)
        hidden_pass_rate  == IF total_hidden > 0
                             THEN Some(safe_rate(passed_hidden, total_hidden))
                             ELSE NoneOpt
    IN  /\ response' = [kind |-> "hardcoding",
                        visible_pass_rate |-> visible_pass_rate,
                        hidden_pass_rate |-> hidden_pass_rate,
                        result |-> check_hardcoding(visible_pass_rate, hidden_pass_rate)]
        /\ UNCHANGED <<now, cooldown_store, tables, foreign_keys, gaussian_mode, served,
                       threads>>

HardcodingInit == InitCommon /\ gaussian_mode = USE_GAUSSIAN /\ foreign_keys

HardcodingNext ==
    \E total_visible \in 1..MaxTotal, total_hidden \in 0..MaxTotal :
    \E passed_visible \in 0..total_visible, passed_hidden \in 0..total_hidden :
        apply_check_hardcoding(passed_visible, total_visible, passed_hidden, total_hidden)

HardcodingSpec == HardcodingInit /\ [][HardcodingNext]_vars

\* C10: with a hidden pass rate, the check flags visible_only_pass when the
\* visible rate is 1.0 and the hidden rate is below 0.50, otherwise
\* suspicious_gap when visible minus hidden exceeds 0.40, otherwise nothing;
\* the capped score 0.3 is signalled exactly when a flag is raised
C10_HardcodingRules ==
    (response.kind = "hardcoding" /\ response.hidden_pass_rate # NoneOpt)
        => LET v == response.visible_pass_rate
               h == response.hidden_pass_rate[1]
               r == response.result
               expected ==
                   IF v = RateScale /\ 2 * h < RateScale THEN "visible_only_pass"
                   ELSE IF 10 * (v - h) > 4 * RateScale THEN "suspicious_gap"
                   ELSE "None"
           IN  /\ r.reason = expected
               /\ r.flagged <=> (expected # "None")
               /\ r.capped_score = IF r.flagged THEN Some((3 * RateScale) \div 10)
                                   ELSE NoneOpt

\* the gap is exactly 0.40 and nothing is flagged
C10_GapAtThreshold ==
    /\ response.kind = "hardcoding" /\ response.hidden_pass_rate # NoneOpt
    /\ 10 * (response.visible_pass_rate - response.hidden_pass_rate[1]) = 4 * RateScale
    /\ ~response.result.flagged

(***************************************************************************)
(* Escalation: POST /submit by one student on one problem, and the faculty *)
(* resolving audit entries                                                 *)
(***************************************************************************)
CodeSyntaxError == <<"(">>
AllTimeout      == AllRuns(RunTimeout)

MaxEscalationSubs == 4
MaxLogId          == 2

EscalationRequests ==
    { [code |-> CodeC, runs |-> AllPass, error_type |-> "none", deep_explain |-> FALSE],
      [code |-> CodeC, runs |-> AllTimeout, error_type |-> "none", deep_explain |-> FALSE],
      [code |-> CodeC, runs |-> AllTimeout, error_type |-> "off_by_one",
       deep_explain |-> FALSE],
      [code |-> CodeC, runs |-> AllWrong, error_type |-> "none", deep_explain |-> TRUE],
      [code |-> CodeSyntaxError, runs |-> AllPass, error_type |-> "syntax_error",
       deep_explain |-> FALSE] }

EscalationInit == InitCommon /\ gaussian_mode = USE_GAUSSIAN

EscalationNext ==
    \/ /\ Len(submissions) < MaxEscalationSubs
       /\ \E req \in EscalationRequests :
              submit_code("s1", 1, req.code, req.deep_explain, req.runs, req.error_type,
                          "same", NoneOpt, AllPass)
    \/ \E log_id \in 1..MaxLogId : resolve_escalation_entry(log_id)

EscalationSpec == EscalationInit /\ [][EscalationNext]_vars

MaxCooldownSubs == 6

\* half a second before the cooldown of a rejection at time 0 ends, and its end
CooldownInstants == {CooldownTicks - 1, CooldownTicks}

CooldownInit == InitCommon /\ gaussian_mode = USE_GAUSSIAN /\ foreign_keys

CooldownNext ==
    \/ /\ Len(submissions) < MaxCooldownSubs
       /\ \E code \in {CodeC, CodeCPadded, CodeD} :
              submit_code("s1", 1, code, FALSE, AllPass, "none", "same", NoneOpt, AllPass)
    \/ advance_clock(CooldownInstants)

CooldownSpec == CooldownInit /\ [][CooldownNext]_vars

\* the submissions table as the handler of the last response found it
SubmissionsBefore ==
    IF response.status = 200
    THEN SubSeq(submissions, 1, Len(submissions) - 1) ELSE submissions

\* the student's earlier submissions to the problem within the 3 minutes before
\* the last request are at least five and all carry the request's trimmed code
FiveIdenticalInWindow ==
    LET mine == {i \in 1..Len(SubmissionsBefore) :
                    /\ SubmissionsBefore[i].student_id = response.student_id
                    /\ SubmissionsBefore[i].problem_id = response.problem_id
                    /\ SubmissionsBefore[i].submitted_at >= response.at - 3 * 60 * TicksPerSecond}
    IN  /\ Cardinality(mine) >= 5
        /\ \A i \in mine : Strip(SubmissionsBefore[i].code) = Strip(response.code)

\* C3: after five identical submissions within the window, the next submission of
\* that code within the window is rejected: a cooldown is in force, the result
\* reports it active with a positive number of remaining seconds, and the code is
\* not executed
C3_NextIdenticalRejected ==
    (response.kind = "submit" /\ FiveIdenticalInWindow)
        => /\ response.status = 429
           /\ response.cooldown_active
           /\ response.cooldown_seconds_remaining > 0
           /\ ~response.executed
           /\ response.student_id \in DOMAIN cooldown_store
           /\ cooldown_store[response.student_id] > response.at

\* a request was rejected after five identical submissions
C3_Rejected ==
    /\ response.kind = "submit" /\ FiveIdenticalInWindow
    /\ response.status = 429

\* C4: once the student's cooldown has expired, the student's next submission is
\* not rejected by the rapid-resubmit check
C4_ProceedsAfterExpiry ==
    (/\ response.kind = "submit"
     /\ response.student_id \in DOMAIN response.prior_store
     /\ response.prior_store[response.student_id] <= response.at)
        => response.status # 429

\* a submission was accepted after the student's cooldown had expired
C4_AcceptedAfterExpiry ==
    /\ response.kind = "submit"
    /\ response.student_id \in DOMAIN response.prior_store
    /\ response.prior_store[response.student_id] <= response.at
    /\ response.status = 200

(***************************************************************************)
(* Requests in flight.  The endpoints are plain def functions, which       *)
(* FastAPI runs in a thread pool, each request with a session of its own;  *)
(* _cooldown_store is one dict of the process, used without a lock.  A     *)
(* thread is [pc, ...]; each action below is one step of one thread.       *)
(***************************************************************************)
MaxThreads == 2

ThreadIds == 1..MaxThreads

SetThread(tid, rec) ==
    [k \in DOMAIN threads \cup {tid} |-> IF k = tid THEN rec ELSE threads[k]]

NoThreads == DOMAIN threads = {}

(***************************************************************************)
(* check_rapid_resubmit (sandbox/anti_gaming.py), statement by statement   *)
(***************************************************************************)
\* the request reaches check_rapid_resubmit
begin_check(tid, student_id, problem_id, code) ==
    /\ tid \notin DOMAIN threads
    /\ threads' = SetThread(tid,
           [pc |-> "get", student_id |-> student_id, problem_id |-> problem_id,
            code |-> code, expiry |-> NoneOpt, saw_cooldown |-> FALSE,
            trigger |-> LET recent == recent_submissions(student_id, problem_id,
                                                          submissions, now)
                        IN  /\ Len(recent) >= 5
                            /\ \A i \in 1..Len(recent) :
                                   Strip(recent[i].code) = Strip(code)])
    /\ UNCHANGED <<now, cooldown_store, tables, foreign_keys, gaussian_mode, response,
                   served>>

\* expiry = _cooldown_store.get(student_id)
cooldown_get(tid) ==
    /\ tid \in DOMAIN threads /\ threads[tid].pc = "get"
    /\ LET th == threads[tid]
       IN  threads' = SetThread(tid,
               IF th.student_id \in DOMAIN cooldown_store
               THEN [th EXCEPT !.pc = "compare", !.saw_cooldown = TRUE,
                               !.expiry = Some(cooldown_store[th.student_id])]
               ELSE [th EXCEPT !.pc = "query"])
    /\ UNCHANGED <<now, cooldown_store, tables, foreign_keys, gaussian_mode, response,
                   served>>

\* if now < expiry: return the active cooldown
cooldown_compare(tid) ==
    /\ tid \in DOMAIN threads /\ threads[tid].pc = "compare"
    /\ LET th == threads[tid]
       IN  threads' = SetThread(tid,
               IF now < th.expiry[1]
               THEN [th EXCEPT !.pc = "rejected"]
               ELSE [th EXCEPT !.pc = "del"])
    /\ UNCHANGED <<now, cooldown_store, tables, foreign_keys, gaussian_mode, response,
                   served>>

\* del _cooldown_store[student_id]: KeyError when the key is gone
cooldown_del(tid) ==
    /\ tid \in DOMAIN threads /\ threads[tid].pc = "del"
    /\ LET th == threads[tid]
       IN  IF th.student_id \in DOMAIN cooldown_store
           THEN /\ cooldown_store' = [k \in DOMAIN cooldown_store \ {th.student_id} |->
                                         cooldown_store[k]]
                /\ threads' = SetThread(tid, [th EXCEPT !.pc = "query"])
           ELSE /\ threads' = SetThread(tid, [th EXCEPT !.pc = "error"])
                /\ UNCHANGED cooldown_store
    /\ UNCHANGED <<now, tables, foreign_keys, gaussian_mode, response, served>>

\* the query of the recent submissions and the count of distinct code versions
resubmit_query(tid) ==
    /\ tid \in DOMAIN threads /\ threads[tid].pc = "query"
    /\ LET th == threads[tid]
           r  == rapid_resubmit_query(th.student_id, th.problem_id, th.code,
                                      submissions, cooldown_store, now)
       IN  threads' = SetThread(tid,
               IF r.result.cooldown_active
               THEN [th EXCEPT !.pc = "apply"]
               ELSE [th EXCEPT !.pc = "passed"])
    /\ UNCHANGED <<now, cooldown_store, tables, foreign_keys, gaussian_mode, response,
                   served>>

\* _apply_cooldown(student_id, seconds=ANTI_GAME_COOLDOWN_S)
apply_cooldown(tid) ==
    /\ tid \in DOMAIN threads /\ threads[tid].pc = "apply"
    /\ LET th == threads[tid]
       IN  /\ cooldown_store' = [k \in DOMAIN cooldown_store \cup {th.student_id} |->
                                    IF k = th.student_id THEN now + CooldownTicks
                                    ELSE cooldown_store[k]]
           /\ threads' = SetThread(tid, [th EXCEPT !.pc = "rejected"])
    /\ UNCHANGED <<now, tables, foreign_keys, gaussian_mode, response, served>>

MaxRaceSubs == 6

RaceInit == InitCommon /\ gaussian_mode = USE_GAUSSIAN /\ foreign_keys

RaceNext ==
    \/ /\ NoThreads
       /\ Len(submissions) < MaxRaceSubs
       /\ submit_code("s1", 1, CodeC, FALSE, AllPass, "none", "same", NoneOpt, AllPass)
    \/ /\ NoThreads
       /\ advance_clock(CooldownInstants)
    \/ \E tid \in ThreadIds, code \in {CodeC, CodeD} : begin_check(tid, "s1", 1, code)
    \/ \E tid \in ThreadIds : cooldown_get(tid)
    \/ \E tid \in ThreadIds : cooldown_compare(tid)
    \/ \E tid \in ThreadIds : cooldown_del(tid)
    \/ \E tid \in ThreadIds : resubmit_query(tid)
    \/ \E tid \in ThreadIds : apply_cooldown(tid)

RaceSpec == RaceInit /\ [][RaceNext]_vars

\* C5: concurrent submissions of one student serialize on the student's cooldown
\* key: two of them never both see no cooldown and both pass the check while the
\* trigger condition holds, and no interleaving of the read, the purge and the
\* apply raises an error
C5_SerializedOnKey ==
    /\ \A t \in DOMAIN threads : threads[t].pc # "error"
    /\ ~\E t1, t2 \in DOMAIN threads :
           /\ t1 # t2
           /\ threads[t1].pc = "passed" /\ threads[t2].pc = "passed"
           /\ ~threads[t1].saw_cooldown /\ ~threads[t2].saw_cooldown
           /\ threads[t1].trigger /\ threads[t2].trigger

\* two requests of one student have both finished the check
C5_BothChecked ==
    /\ DOMAIN threads = ThreadIds
    /\ \A t \in ThreadIds : threads[t].pc \in {"passed", "rejected"}

(***************************************************************************)
(* update_capability_scores (analysis/capability_engine.py) in two         *)
(* sessions, step by step: the read of the old score, the lookup of        *)
(* _upsert_score, and the flush and commit of the session                  *)
(***************************************************************************)
CapabilityInputs ==
    { [pass_rate |-> RateScale, compiled |-> TRUE, timeout |-> FALSE,
       runtime_error |-> FALSE, error_type |-> "none"],
      [pass_rate |-> 0, compiled |-> TRUE, timeout |-> TRUE,
       runtime_error |-> FALSE, error_type |-> "none"],
      [pass_rate |-> 0, compiled |-> TRUE, timeout |-> FALSE,
       runtime_error |-> FALSE, error_type |-> "off_by_one"] }

\* the request reaches update_capability_scores
begin_update(tid, student_id, concept, in) ==
    /\ tid \notin DOMAIN threads
    /\ threads' = SetThread(tid,
           [pc |-> "read", student_id |-> student_id, concept |-> concept,
            submission_score |-> compute_submission_score(in.pass_rate, in.compiled,
                                                          in.timeout, in.runtime_error),
            weight |-> ConceptWeight(in.error_type, concept),
            first |-> NoThreads,
            score_at_begin |-> get_capability_score(student_id, concept,
                                                    capability_scores),
            old_score |-> 0, new_score |-> 0, record_found |-> FALSE])
    /\ UNCHANGED <<now, cooldown_store, tables, foreign_keys, gaussian_mode, response,
                   served>>

\* old_score = get_capability_score(...); new_score = _ema_update(...)
read_score(tid) ==
    /\ tid \in DOMAIN threads /\ threads[tid].pc = "read"
    /\ LET th  == threads[tid]
           old == get_capability_score(th.student_id, th.concept, capability_scores)
       IN  threads' = SetThread(tid,
               [th EXCEPT !.pc = "lookup", !.old_score = old,
                          !.new_score = ema_update(old, th.submission_score, th.weight)])
    /\ UNCHANGED <<now, cooldown_store, tables, foreign_keys, gaussian_mode, response,
                   served>>

\* _upsert_score: the select that decides between update and insert
upsert_lookup(tid) ==
    /\ tid \in DOMAIN threads /\ threads[tid].pc = "lookup"
    /\ LET th == threads[tid]
       IN  threads' = SetThread(tid,
               [th EXCEPT !.pc = "flush",
                          !.record_found =
                              <<th.student_id, th.concept>> \in DOMAIN capability_scores])
    /\ UNCHANGED <<now, cooldown_store, tables, foreign_keys, gaussian_mode, response,
                   served>>

\* the session's flush and commit: UPDATE of the row found, or INSERT, which the
\* primary key refuses when the row exists by now
flush_commit(tid) ==
    /\ tid \in DOMAIN threads /\ threads[tid].pc = "flush"
    /\ LET th  == threads[tid]
           key == <<th.student_id, th.concept>>
       IN  IF ~th.record_found /\ key \in DOMAIN capability_scores
           THEN /\ threads' = SetThread(tid, [th EXCEPT !.pc = "error"])
                /\ UNCHANGED capability_scores
           ELSE /\ capability_scores' =
                       [k \in DOMAIN capability_scores \cup {key} |->
                           IF k = key THEN th.new_score ELSE capability_scores[k]]
                /\ threads' = SetThread(tid, [th EXCEPT !.pc = "done"])
    /\ UNCHANGED <<now, cooldown_store, problems, submissions, escalation_logs,
                   foreign_keys, gaussian_mode, response, served>>

MaxCapabilitySubs == 1

CapabilityRaceInit == InitCommon /\ gaussian_mode = USE_GAUSSIAN /\ foreign_keys

CapabilityRaceNext ==
    \/ /\ NoThreads
       /\ Len(submissions) < MaxCapabilitySubs
       /\ \E runs \in {AllPass, AllTimeout} :
              submit_code("s1", 1, CodeC, FALSE, runs, "off_by_one", "same", NoneOpt,
                          AllPass)
    \/ \E tid \in ThreadIds, in \in CapabilityInputs : begin_update(tid, "s1", "loops", in)
    \/ \E tid \in ThreadIds : read_score(tid)
    \/ \E tid \in ThreadIds : upsert_lookup(tid)
    \/ \E tid \in ThreadIds : flush_commit(tid)

CapabilityRaceSpec == CapabilityRaceInit /\ [][CapabilityRaceNext]_vars

\* C6: concurrent capability updates of one (student, concept) are never lost: the
\* final score is the one of both EMA updates applied one after the other, in
\* one of the two orders
C6_NoLostUpdate ==
    (DOMAIN threads = {1, 2} /\ \A t \in {1, 2} : threads[t].pc \in {"done", "error"})
        => LET a == threads[1]
               b == threads[2]
               start == IF a.first THEN a.score_at_begin ELSE b.score_at_begin
               ab == ema_update(ema_update(start, a.submission_score, a.weight),
                                b.submission_score, b.weight)
               ba == ema_update(ema_update(start, b.submission_score, b.weight),
                                a.submission_score, a.weight)
           IN  /\ a.pc = "done" /\ b.pc = "done"
               /\ capability_scores[<<"s1", "loops">>] \in {ab, ba}

\* two updates of one (student, concept) have both been committed
C6_BothCommitted ==
    /\ DOMAIN threads = {1, 2}
    /\ threads[1].pc = "done" /\ threads[2].pc = "done"

(***************************************************************************)
(* Problems without hidden cases.  Nothing ties the hidden_ratio column of *)
(* a row of problems to its test_cases: enforce_hidden_ratio reads the     *)
(* column only, so a row the faculty adds may list visible cases alone.    *)
(***************************************************************************)
VisibleOnlyProblem == Problem("loops", <<"loops">>, "easy", 35, <<VisibleCase, VisibleCase>>, 500, "faculty")

\* the first case prints a wrong answer, the others pass
FirstWrong == [i \in 1..MaxCases |-> IF i = 1 THEN RunWrong ELSE RunPass]

MaxNoHiddenSubs == 3

\* the state after start-up on a database whose problems table holds bank
InitWithBank(bank) ==
    /\ now = 0
    /\ cooldown_store = EmptyMap
    /\ problems = bank
    /\ submissions = <<>>
    /\ capability_scores = EmptyMap
    /\ escalation_logs = <<>>
    /\ foreign_keys \in BOOLEAN
    /\ gaussian_mode = USE_GAUSSIAN
    /\ response = NoResponse
    /\ served = EmptyMap
    /\ threads = EmptyMap

NoHiddenInit == InitWithBank(Append(SeedProblems, VisibleOnlyProblem))

NoHiddenNext ==
    /\ Len(submissions) < MaxNoHiddenSubs
    /\ \E problem_id \in {p \in ProblemIds(problems) : problems[p].primary_concept = "loops"} :
       \E runs \in {AllPass, AllWrong, FirstWrong} :
       \E error_type \in {"none", "off_by_one"} :
           submit_code("s1", problem_id, CodeC, FALSE, runs, error_type, "same", NoneOpt, AllPass)

NoHiddenSpec == NoHiddenInit /\ [][NoHiddenNext]_vars

\* C11: a submission to a problem without hidden cases is never flagged for
\* hardcoding, and its pass rate is never capped
C11_NoHiddenNoFlag ==
    (/\ response.kind = "submit" /\ response.executed
     /\ HiddenCount(problems[response.problem_id].test_cases) = 0)
        => /\ ~response.gaming.flagged
           /\ response.status = 200 => response.pass_rate = response.exec_result.pass_rate

\* a submission to a problem without hidden cases was executed and answered
C11_NoHiddenSubmitted ==
    /\ response.kind = "submit" /\ response.status = 200
    /\ HiddenCount(problems[response.problem_id].test_cases) = 0

(***************************************************************************)
(* Scoring of flagged submissions: POST /submit by one student on problems *)
(* with two or three visible and two hidden cases                          *)
(***************************************************************************)
\* a faculty problem with three visible and two hidden cases
ThreeVisibleTwoHidden == Problem("loops", <<"loops">>, "easy", 35, <<VisibleCase, VisibleCase, VisibleCase, HiddenCase, HiddenCase>>, 400, "faculty")

\* every visible case passes; every hidden case ends as run says
VisiblePassHidden(test_cases, run) == [i \in 1..Len(test_cases) |-> IF test_cases[i].hidden THEN run ELSE RunPass]

MaxScoringSubs == 2

ScoringInit == InitWithBank(Append(SeedProblems, ThreeVisibleTwoHidden))

ScoringNext ==
    /\ Len(submissions) < MaxScoringSubs
    /\ \E problem_id \in {p \in ProblemIds(problems) : problems[p].primary_concept = "loops"} :
       \E runs \in {AllRuns(RunPass), AllRuns(RunWrong)}
                   \cup {VisiblePassHidden(problems[problem_id].test_cases, run) : run \in {RunWrong, RunTimeout, RunCrash}} :
       \E error_type \in {"none", "off_by_one", "hardcoded_values"} :
           submit_code("s1", problem_id, CodeC, FALSE, runs, error_type, "same", NoneOpt, AllPass)

ScoringSpec == ScoringInit /\ [][ScoringNext]_vars

\* C12: a flagged submission is scored, judged for escalation and persisted with
\* a pass rate of at most 0.3; a student's first submission that passes 3/3
\* visible and 0/2 hidden cases is flagged visible_only_pass and leaves the
\* student's score for the concept below 0.5
C12_FlaggedCappedAndScoreDrops ==
    (response.kind = "submit" /\ response.executed)
        => LET key == <<response.student_id, problems[response.problem_id].primary_concept>>
               e   == response.exec_result
           IN  /\ (response.gaming.flagged /\ response.status = 200)
                      => /\ 10 * response.pass_rate <= 3 * RateScale
                         /\ 10 * submissions[Len(submissions)].pass_rate <= 3 * RateScale
                         /\ 10 * response.capability_update[1].new_score
                                <= 10 * response.capability_update[1].old_score
                                   \/ 10 * response.capability_update[1].new_score <= 4 * RateScale
               /\ (/\ SubmissionsBefore = <<>>
                   /\ e.passed_visible = 3 /\ e.total_visible = 3
                   /\ e.passed_hidden = 0 /\ e.total_hidden = 2)
                      => /\ response.gaming.reason = "visible_only_pass"
                         /\ key \in DOMAIN capability_scores
                         /\ capability_scores[key] < INITIAL_SCORE

\* a first submission passed 3/3 visible and 0/2 hidden cases and was flagged
C12_VisibleOnlyFirstSubmission ==
    /\ response.kind = "submit" /\ response.executed
    /\ SubmissionsBefore = <<>>
    /\ response.exec_result.passed_visible = 3 /\ response.exec_result.passed_hidden = 0
    /\ response.exec_result.total_hidden = 2
    /\ response.gaming.flagged

(***************************************************************************)
(* Difficulty signals: two students submit to one problem, Brain A         *)
(* answering each submission with any of its three signals                 *)
(***************************************************************************)
DifficultySignals == {"easier", "same", "harder"}

MaxSignalSubs == 3

SignalInit == InitCommon /\ gaussian_mode = USE_GAUSSIAN

SignalNext ==
    /\ Len(submissions) < MaxSignalSubs
    /\ \E student_id \in Students, runs \in {AllPass, AllWrong} :
       \E difficulty_signal \in DifficultySignals :
           submit_code(student_id, 1, CodeC, FALSE, runs, "off_by_one", difficulty_signal, NoneOpt, AllPass)

SignalSpec == SignalInit /\ [][SignalNext]_vars

\* what a student's submissions record of the code and its execution, in order
Outcomes(student_id) ==
    LET Mine(row) == row.student_id = student_id
        rows == SelectSeq(submissions, Mine)
    IN  [i \in 1..Len(rows) |->
            [problem_id |-> rows[i].problem_id, code |-> rows[i].code,
             compiled |-> rows[i].compiled, pass_rate |-> rows[i].pass_rate,
             visible_pass_rate |-> rows[i].visible_pass_rate,
             hidden_pass_rate |-> rows[i].hidden_pass_rate,
             error_type |-> rows[i].error_type]]

\* the difficulty signals Brain A gave on a student's submissions, in order
Signals(student_id) ==
    LET Mine(row) == row.student_id = student_id
        rows == SelectSeq(submissions, Mine)
    IN  [i \in 1..Len(rows) |-> rows[i].brain_a_feedback]

\* a student's rows of capability_scores
ScoresOf(student_id) ==
    {<<k[2], capability_scores[k]>> : k \in {x \in DOMAIN capability_scores : x[1] = student_id}}

\* C13: two students whose submissions had the same execution outcomes have the
\* same capability scores, whatever difficulty signals they were given
C13_ScoresIgnoreSignal ==
    Outcomes("s1") = Outcomes("s2") => ScoresOf("s1") = ScoresOf("s2")

\* two students with the same outcomes were given different difficulty signals
C13_SameOutcomesOtherSignals ==
    /\ Outcomes("s1") = Outcomes("s2")
    /\ Len(Signals("s1")) >= 1
    /\ Signals("s1") # Signals("s2")
    /\ ScoresOf("s1") # {}

(***************************************************************************)
(* The exponential moving average: one student's score of one concept is   *)
(* updated again and again by submissions of the same outcome and the same *)
(* error type, from first contact until the score no longer changes.       *)
(***************************************************************************)
\* execution outcomes <<pass_rate, compiled, timeout, runtime_error>>, one for
\* each branch of compute_submission_score
EmaOutcomes ==
    { <<RateScale, TRUE, FALSE, FALSE>>, <<RateScale \div 2, TRUE, FALSE, FALSE>>,
      <<RateScale \div 4, TRUE, FALSE, FALSE>>, <<0, TRUE, FALSE, FALSE>>,
      <<0, FALSE, FALSE, FALSE>>, <<0, TRUE, TRUE, FALSE>>, <<0, TRUE, FALSE, TRUE>> }

EmaErrorTypes == {"off_by_one", "hardcoded_values", "none"}

\* update_capability_scores for a problem of the one concept tag
update_capability_scores(student_id, concept, pass_rate, compiled, timeout, runtime_error, error_type) ==
    \E upd \in {update_capability(student_id, concept, pass_rate, compiled, timeout,
                                  runtime_error, error_type, capability_scores)} :
        /\ capability_scores' = upd.caps
        /\ response' = [kind |-> "capability", student_id |-> student_id,
                        concept |-> concept,
                        first_contact |-> <<student_id, concept>> \notin DOMAIN capability_scores,
                        old_score |-> upd.old_score, new_score |-> upd.new_score,
                        submission_score |-> upd.submission_score,
                        error_type |-> error_type,
                        weight |-> ConceptWeight(error_type, concept)]
        /\ UNCHANGED <<now, cooldown_store, problems, submissions, escalation_logs,
                       foreign_keys, gaussian_mode, served, threads>>

EmaInit == InitCommon /\ gaussian_mode = USE_GAUSSIAN

EmaNext ==
    \E concept \in {"loops", "arrays"}, outcome \in EmaOutcomes, error_type \in EmaErrorTypes :
        /\ response.kind = "capability" =>
               /\ concept = response.concept
               /\ error_type = response.error_type
               /\ compute_submission_score(outcome[1], outcome[2], outcome[3], outcome[4])
                      = response.submission_score
        /\ update_capability_scores("s1", concept, outcome[1], outcome[2], outcome[3],
                                    outcome[4], error_type)

EmaSpec == EmaInit /\ [][EmaNext]_vars

\* C14: an update of a score that differs from the submission score moves the
\* score strictly toward the submission score and not past it; every stored
\* score is within [0, 1]; the old score of a first contact is 0.5
C14_EmaMovesTowardTarget ==
    /\ \A k \in DOMAIN capability_scores :
           capability_scores[k] >= SCORE_MIN /\ capability_scores[k] <= SCORE_MAX
    /\ response.kind = "capability" =>
           /\ response.weight > 0 /\ response.weight <= 100
           /\ response.first_contact => response.old_score = INITIAL_SCORE
           /\ response.old_score < response.submission_score =>
                  /\ response.old_score < response.new_score
                  /\ response.new_score <= response.submission_score
           /\ response.old_score > response.submission_score =>
                  /\ response.new_score < response.old_score
                  /\ response.new_score >= response.submission_score

\* a repeated update has been applied to a score that is not the submission score
C14_RepeatedUpdate ==
    /\ response.kind = "capability" /\ ~response.first_contact
    /\ response.old_score # response.submission_score

(***************************************************************************)
(* compute_submission_score on every combination of its arguments, the     *)
(* pass rate being any rate of a problem of up to MaxScoreCases test cases *)
(***************************************************************************)
MaxScoreCases == 6

apply_compute_submission_score(pass_rate, compiled, timeout, runtime_error) ==
    /\ response' = [kind |-> "submission_score", pass_rate |-> pass_rate,
                    compiled |-> compiled, timeout |-> timeout,
                    runtime_error |-> runtime_error,
                    submission_score |-> compute_submission_score(pass_rate, compiled,
                                                                  timeout, runtime_error)]
    /\ UNCHANGED <<now, cooldown_store, tables, foreign_keys, gaussian_mode, served,
                   threads>>

SubmissionScoreInit == InitCommon /\ gaussian_mode = USE_GAUSSIAN /\ foreign_keys

SubmissionScoreNext ==
    \E total \in 1..MaxScoreCases, compiled \in BOOLEAN, timeout \in BOOLEAN, runtime_error \in BOOLEAN :
    \E passed \in 0..total :
        apply_compute_submission_score(safe_rate(passed, total), compiled, timeout,
                                       runtime_error)

SubmissionScoreSpec == SubmissionScoreInit /\ [][SubmissionScoreNext]_vars

\* C15: the submission score is 0.1 on a timeout or a runtime error, else 0.2
\* when the code did not compile, else 1.0 for pass rate 1.0, else 0.6 for a
\* pass rate of at least 0.5, else 0.4 for a pass rate above 0, else 0.3
C15_SubmissionScorePriority ==
    response.kind = "submission_score" =>
        LET r == response
        IN  /\ (r.timeout \/ r.runtime_error) => r.submission_score = ScoreScale \div 10
            /\ (~r.timeout /\ ~r.runtime_error /\ ~r.compiled)
                   => r.submission_score = (2 * ScoreScale) \div 10
            /\ (~r.timeout /\ ~r.runtime_error /\ r.compiled) =>
                   /\ r.pass_rate = RateScale => r.submission_score = ScoreScale
                   /\ (r.pass_rate < RateScale /\ 2 * r.pass_rate >= RateScale)
                          => r.submission_score = (6 * ScoreScale) \div 10
                   /\ (r.pass_rate > 0 /\ 2 * r.pass_rate < RateScale)
                          => r.submission_score = (4 * ScoreScale) \div 10
                   /\ r.pass_rate = 0 => r.submission_score = (3 * ScoreScale) \div 10

\* a timeout is scored for code that is reported as not compiled
C15_TimeoutNotCompiled ==
    /\ response.kind = "submission_score"
    /\ response.timeout /\ ~response.compiled
    /\ response.submission_score = SUBMISSION_SCORE_TIMEOUT_CRASH

(***************************************************************************)
(* The validator on generated exercises: the statement long enough or not, *)
(* the reference solution compiling or not, test case lists of several     *)
(* hidden ratios (0.29 and 0.30 among them), and every case of the         *)
(* reference run ending the same way.                                      *)
(***************************************************************************)
\* <<number of hidden cases, number of cases>>
HiddenShapes ==
    {<<0, 2>>, <<1, 4>>, <<2, 7>>, <<29, 100>>, <<30, 100>>, <<3, 10>>, <<31, 100>>,
     <<1, 2>>, <<2, 2>>}

CaseList(n_hidden, total) ==
    [i \in 1..total |-> IF i <= total - n_hidden THEN VisibleCase ELSE HiddenCase]

\* a test case without the key "output"
CaseWithoutOutput == [input |-> "in", hidden |-> TRUE]

ValidatorCaseLists ==
    {CaseList(shape[1], shape[2]) : shape \in HiddenShapes} \cup {<<CaseWithoutOutput>>}

ValidatorProblems ==
    { [statement |-> statement, concept_tags |-> <<"loops">>, difficulty |-> difficulty,
       reference_solution |-> reference_solution, test_cases |-> test_cases] :
          statement \in {StatementText, <<"x">>}, difficulty \in {"easy", "hard"},
          reference_solution \in {<<"r">>, <<"(">>}, test_cases \in ValidatorCaseLists }

apply_validate_problem(mp, run) ==
    /\ response' = [kind |-> "validation", mini_problem |-> mp, run |-> run,
                    result |-> validate_problem(mp, [i \in 1..Len(mp.test_cases) |-> run])]
    /\ UNCHANGED <<now, cooldown_store, tables, foreign_keys, gaussian_mode, served,
                   threads>>

ValidatorInit == InitCommon /\ gaussian_mode = USE_GAUSSIAN /\ foreign_keys

ValidatorNext ==
    \E mp \in ValidatorProblems :
    \E run \in {RunPass, RunWrong, RunTimeout, RunCrash, RunSlowPass} :
        apply_validate_problem(mp, run)

ValidatorSpec == ValidatorInit /\ [][ValidatorNext]_vars

\* what the validation in response was made of
ValidatedProblem == response.mini_problem
ReferenceResult ==
    run_code(ValidatedProblem.reference_solution, ValidatedProblem.test_cases,
             [i \in 1..Len(ValidatedProblem.test_cases) |-> response.run])
ReferenceRunsClean ==
    /\ check_syntax(ValidatedProblem.reference_solution)
    /\ response.run \in {RunPass, RunSlowPass}
StructurallySound ==
    /\ Len(Strip(ValidatedProblem.statement)) >= 10
    /\ \A i \in 1..Len(ValidatedProblem.test_cases) :
           {"input", "output"} \subseteq DOMAIN ValidatedProblem.test_cases[i]
    /\ 10 * HiddenCount(ValidatedProblem.test_cases) >= 3 * Len(ValidatedProblem.test_cases)
WithinTimeLimit ==
    ReferenceResult.execution_time_ms
        <= (IF ValidatedProblem.difficulty = "easy" THEN 2000 ELSE 8000)

\* C16: the stages run in the order structural, execution, complexity and the
\* first failing stage ends the validation with its own reason: a structural
\* failure runs no reference solution, an execution failure runs no
\* complexity check, and the exercise is accepted only when all three pass
C16_StagesInOrder ==
    response.kind = "validation" =>
        LET v == response.result
        IN  /\ v.stages \in {<<"structural">>, <<"structural", "execution">>,
                             <<"structural", "execution", "complexity">>}
            /\ ~StructurallySound =>
                   /\ ~v.ok /\ v.stages = <<"structural">> /\ v.spawned = 0
                   /\ v.reason \in {"missing_fields", "empty_statement",
                                    "invalid_test_cases", "insufficient_hidden"}
            /\ (StructurallySound /\ ~ReferenceRunsClean) =>
                   /\ ~v.ok /\ v.stages = <<"structural", "execution">>
                   /\ v.reason \in {"reference_solution_syntax_error",
                                    "reference_solution_timeout",
                                    "reference_solution_runtime_error",
                                    "reference_solution_fails"}
            /\ (StructurallySound /\ ReferenceRunsClean /\ ~WithinTimeLimit) =>
                   /\ ~v.ok /\ v.reason = "too_slow_for_difficulty"
                   /\ v.stages = <<"structural", "execution", "complexity">>
            /\ v.ok <=> (StructurallySound /\ ReferenceRunsClean /\ WithinTimeLimit)
            /\ v.ok => v.reason = "ok" /\ v.stages = <<"structural", "execution", "complexity">>

\* an exercise that fails the structural stage and whose reference solution
\* would fail the execution stage was rejected
C16_StructuralAndExecutionFail ==
    /\ response.kind = "validation"
    /\ ~StructurallySound /\ ~ReferenceRunsClean
    /\ ~response.result.ok

\* C17: an otherwise well-formed exercise is rejected with insufficient_hidden
\* when its hidden ratio is below 0.30, 0.29 included, and is not rejected
\* for its hidden ratio when the ratio is 0.30 or more
C17_HiddenRatioThreshold ==
    (/\ response.kind = "validation"
     /\ Len(Strip(ValidatedProblem.statement)) >= 10
     /\ \A i \in 1..Len(ValidatedProblem.test_cases) :
            {"input", "output"} \subseteq DOMAIN ValidatedProblem.test_cases[i])
        => LET n_hidden == HiddenCount(ValidatedProblem.test_cases)
               total    == Len(ValidatedProblem.test_cases)
           IN  /\ 100 * n_hidden < 30 * total
                      => /\ ~response.result.ok
                         /\ response.result.reason = "insufficient_hidden"
               /\ 100 * n_hidden >= 30 * total
                      => response.result.reason # "insufficient_hidden"

\* exercises of hidden ratio 0.29 and 0.30 have been validated
C17_RatioAtThreshold ==
    /\ response.kind = "validation"
    /\ Len(Strip(ValidatedProblem.statement)) >= 10
    /\ Len(ValidatedProblem.test_cases) = 100
    /\ HiddenCount(ValidatedProblem.test_cases) = 30
    /\ response.result.ok

(***************************************************************************)
(* Zone-based selection on the seeded bank: a student submits to problems  *)
(* (which makes them seen and moves the score) and select_next_problem is  *)
(* applied to the tables as they are, with any difficulty signal.          *)
(***************************************************************************)
MaxZoneSubs == 3

apply_select_next_problem(student_id, concept, difficulty_signal) ==
    \E student_score \in {get_capability_score(student_id, concept, capability_scores)} :
    \E result \in select_next_problem(student_id, concept, student_score, difficulty_signal,
                                      gaussian_mode, submissions, problems) :
        /\ response' = [kind |-> "selection", student_id |-> student_id,
                        concept |-> concept, student_score |-> student_score,
                        difficulty_signal |-> difficulty_signal,
                        seen_ids |-> get_seen_problem_ids(student_id, submissions),
                        result |-> result]
        /\ UNCHANGED <<now, cooldown_store, tables, foreign_keys, gaussian_mode, served,
                       threads>>

ZoneInit == InitCommon /\ gaussian_mode = FALSE

ZoneNext ==
    \/ /\ Len(submissions) < MaxZoneSubs
       /\ \E problem_id \in ProblemIds(problems), runs \in {AllPass, AllWrong} :
              submit_code("s1", problem_id, CodeC, FALSE, runs, "none", "same", NoneOpt,
                          AllPass)
    \/ \E concept \in {"loops", "arrays"}, difficulty_signal \in DifficultySignals :
           apply_select_next_problem("s1", concept, difficulty_signal)

ZoneSpec == ZoneInit /\ [][ZoneNext]_vars

\* the target band of the selection in response
SelectionTargetBand ==
    Max2(0, Min2(3, classify_zone(response.student_score)
                        + BAND_OFFSET(response.difficulty_signal)))

\* the band has an unseen validated exercise for the selection in response
BandHasExercise(band) ==
    fetch_problem(IF band = 0 THEN get_prerequisite(response.concept) ELSE response.concept,
                  band_to_difficulty(band), response.seen_ids, problems) # {}

\* C18: a zone-based selection serves the first band, from the target band
\* downward to 0, that has an unseen validated exercise, and the fallback_used
\* of every SelectionResult is true exactly when its band is not the target band
C18_FallbackIffBandDiffers ==
    response.kind = "selection" =>
        LET r == response.result
        IN  /\ r.problem_id # NoneOpt =>
                   /\ r.band \in 0..SelectionTargetBand
                   /\ BandHasExercise(r.band)
                   /\ \A band \in (r.band + 1)..SelectionTargetBand : ~BandHasExercise(band)
            /\ r.problem_id = NoneOpt =>
                   \A band \in 0..SelectionTargetBand : ~BandHasExercise(band)
            /\ r.fallback_used <=> (r.band # SelectionTargetBand)

\* C19: the selection made for a submission in zone-based mode has the zone
\* of the student's score, the offset of the difficulty signal reported for
\* the submission (easier -1, same 0, harder +1), and serves a band at or
\* below the target band clamp(zone + offset, 0, 3)
C19_TargetBandFollowsSignal ==
    (/\ response.kind = "submit" /\ response.status = 200
     /\ ~gaussian_mode /\ response.selection # NoneOpt)
        => LET sel    == response.selection[1]
               score  == get_capability_score(response.student_id,
                                              problems[response.problem_id].primary_concept,
                                              capability_scores)
               zone   == IF 100 * score < 40 * ScoreScale THEN 0
                         ELSE IF 100 * score < 55 * ScoreScale THEN 1
                         ELSE IF 100 * score < 75 * ScoreScale THEN 2
                         ELSE 3
               offset == CASE response.difficulty_signal = "easier" -> 0 - 1
                           [] response.difficulty_signal = "same"   -> 0
                           [] response.difficulty_signal = "harder" -> 1
               target == Max2(0, Min2(3, zone + offset))
           IN  /\ sel.zone = zone
               /\ sel.band_offset = offset
               /\ sel.band <= target
               /\ ~sel.fallback_used => sel.band = target

(***************************************************************************)
(* Submissions of code that compiles, of code that does not parse and of   *)
(* code that parses and is refused by the compiler.                        *)
(***************************************************************************)
CodeUnbalanced == <<"c", "(">>
CodeBreakOutsideLoop == <<"c", "b">>

MaxSyntaxSubs == 2

SyntaxInit == InitCommon /\ gaussian_mode = USE_GAUSSIAN

SyntaxNext ==
    /\ Len(submissions) < MaxSyntaxSubs
    /\ \E problem_id \in ProblemIds(problems) :
       \E code \in {CodeC, CodeUnbalanced, CodeBreakOutsideLoop} :
       \E runs \in {AllPass, AllWrong}, findings \in {"none", "off_by_one"} :
           submit_code("s1", problem_id, code, FALSE, runs, findings, "same", NoneOpt,
                       AllPass)

SyntaxSpec == SyntaxInit /\ [][SyntaxNext]_vars

\* C20: a submission the compiler refuses with a SyntaxError is reported as
\* not compiled, with every count and rate zero and no subprocess spawned,
\* and is classified syntax_error
C20_InvalidCodeIsSyntaxError ==
    (/\ response.kind = "submit" /\ response.executed
     /\ \E i \in 1..Len(response.code) : response.code[i] \in {"(", "b"})
        => LET r == response.exec_result
           IN  /\ ~r.compiled
               /\ r.passed_visible = 0 /\ r.total_visible = 0
               /\ r.passed_hidden = 0 /\ r.total_hidden = 0
               /\ r.pass_rate = 0 /\ r.visible_pass_rate = 0 /\ r.hidden_pass_rate = 0
               /\ r.spawned = 0
               /\ response.error_type = "syntax_error"

(***************************************************************************)
(* run_code on code that compiles or not, on every list of up to           *)
(* MaxExecCases visible and hidden test cases, each case's subprocess      *)
(* passing, printing something else, crashing, timing out or failing to    *)
(* start.                                                                  *)
(***************************************************************************)
MaxExecCases == 3

RunOutcomes == {RunPass, RunWrong, RunCrash, RunTimeout, RunSpawnFail}

ExecCaseLists ==
    UNION {[1..n -> {VisibleCase, HiddenCase}] : n \in 0..MaxExecCases}

apply_run_code(student_code, test_cases, runs) ==
    /\ response' = [kind |-> "execution", student_code |-> student_code,
                    test_cases |-> test_cases, runs |-> runs,
                    result |-> run_code(student_code, test_cases, runs)]
    /\ UNCHANGED <<now, cooldown_store, tables, foreign_keys, gaussian_mode, served,
                   threads>>

ExecInit == InitCommon /\ gaussian_mode = USE_GAUSSIAN /\ foreign_keys

\* one call of run_code in a run of the harness
ExecNext ==
    /\ response = NoResponse
    /\ \E student_code \in {CodeC, CodeUnbalanced}, test_cases \in ExecCaseLists :
       \E runs \in [1..Len(test_cases) -> RunOutcomes] :
           apply_run_code(student_code, test_cases, runs)

ExecSpec == ExecInit /\ [][ExecNext]_vars

\* the three <<rate, passed, total>> of the execution in response
ExecRates ==
    LET r == response.result
    IN  { <<r.visible_pass_rate, r.passed_visible, r.total_visible>>,
          <<r.hidden_pass_rate, r.passed_hidden, r.total_hidden>>,
          <<r.pass_rate, r.passed_visible + r.passed_hidden,
            r.total_visible + r.total_hidden>> }

\* C21: each of the visible, hidden and combined pass rates is 0.0 when its
\* total is 0 and otherwise equals passed/total, with 0 <= passed <= total;
\* the two totals add up to the number of test cases run
C21_RatesArePassedOverTotal ==
    response.kind = "execution" =>
        /\ \A x \in ExecRates :
               /\ x[2] >= 0 /\ x[2] <= x[3]
               /\ x[3] = 0 => x[1] = 0
               /\ x[3] > 0 => x[1] * x[3] = x[2] * RateScale
        /\ response.result.total_visible + response.result.total_hidden
               = response.result.spawned

\* C21 as amended: each rate is 0.0 when its total is 0 and otherwise is
\* passed/total rounded to four decimals, with 0 <= passed <= total; the two
\* totals add up to the number of test cases run
C21_RatesAreRoundedQuotients ==
    response.kind = "execution" =>
        /\ \A x \in ExecRates :
               /\ x[2] >= 0 /\ x[2] <= x[3]
               /\ x[3] = 0 => x[1] = 0
               /\ x[3] > 0 => /\ 2 * (x[1] * x[3] - x[2] * RateScale) <= x[3]
                              /\ 2 * (x[2] * RateScale - x[1] * x[3]) <= x[3]
        /\ response.result.total_visible + response.result.total_hidden
               = response.result.spawned

\* two of three hidden cases passed and there was no visible case
C21_TwoOfThreeHidden ==
    /\ response.kind = "execution"
    /\ response.result.total_visible = 0
    /\ response.result.total_hidden = 3 /\ response.result.passed_hidden = 2
    /\ response.result.visible_pass_rate = 0

\* C22: a case whose subprocess timed out or failed to start is reported as
\* failed with the sentinel marker as its output, and run_code returns one
\* pass flag and one output for every test case, in the order of the cases
C22_FailuresCarrySentinel ==
    (response.kind = "execution" /\ response.result.compiled) =>
        LET r == response.result
            n == Len(response.test_cases)
        IN  /\ Len(r.test_results) = n /\ Len(r.test_outputs) = n
            /\ \A i \in 1..n :
                   /\ r.test_outputs[i].src = i
                   /\ r.test_results[i] <=> response.runs[i] = RunPass
                   /\ response.runs[i] \in {RunTimeout, RunSpawnFail} =>
                          /\ ~r.test_results[i]
                          /\ r.test_outputs[i].text = "<timeout>"

(***************************************************************************)
(* ai/brain_a.py and ai/brain_b.py: one call of a feedback generator.      *)
(* What the model server does is the environment's choice, a reply:        *)
(*   transport  "ok", or the exception requests.post raises                *)
(*   form       of the response text: "empty", "plain" (no JSON in it),    *)
(*              "json" (json.loads succeeds) or "wrapped" (a JSON object   *)
(*              between other text)                                        *)
(*   type       of the JSON value: "object", "array", "scalar"             *)
(*   and the fields of the object, "" for a missing or empty one.          *)
(***************************************************************************)
Transports == {"ok", "timeout", "connection_error", "http_error"}

\* _call_ollama: (response_text, error_message); one requests.post, no loop
call_ollama(reply) ==
    IF reply.transport # "ok"
    THEN [raw |-> NoneOpt, error |-> Some(reply.transport), attempts |-> 1]
    ELSE [raw |-> Some(reply), error |-> NoneOpt, attempts |-> 1]

\* json.loads(text), and on JSONDecodeError json.loads(text[start:end]) of the
\* outermost braces: the value, or None when there is none
loads_or_extract(raw) ==
    IF raw.form \in {"json", "wrapped"} THEN Some(raw.type) ELSE NoneOpt

BRAIN_A_SAFE_DEFAULTS(raw_response) ==
    [feedback_text |-> "default", mistake_category |-> "unknown",
     difficulty_signal |-> "same", raw_response |-> raw_response, parse_error |-> TRUE]

VALID_MISTAKE_CATEGORIES ==
    {"off_by_one", "missing_base_case", "wrong_data_structure", "brute_force",
     "hardcoded", "approach_mismatch", "syntax", "logic", "unknown"}

\* brain_a._parse_response: obj.get on a value that is not a dict raises
\* AttributeError, which nothing catches
brain_a_parse_response(raw) ==
    LET loaded == loads_or_extract(raw)
    IN  IF loaded = NoneOpt THEN [raised |-> FALSE, parsed |-> NoneOpt]
        ELSE IF loaded[1] # "object" THEN [raised |-> TRUE, parsed |-> NoneOpt]
        ELSE [raised |-> FALSE,
              parsed |-> Some(
                  [feedback_text |-> IF raw.feedback_text = "" THEN "review"
                                     ELSE raw.feedback_text,
                   mistake_category |->
                       IF raw.mistake_category \in VALID_MISTAKE_CATEGORIES
                       THEN raw.mistake_category ELSE "unknown",
                   difficulty_signal |->
                       IF raw.difficulty_signal \in {"easier", "same", "harder"}
                       THEN raw.difficulty_signal ELSE "same",
                   raw_response |-> Some(raw), parse_error |-> FALSE])]

\* get_feedback: the BrainAOutput, or the exception that leaves it
get_feedback(reply) ==
    LET call == call_ollama(reply)
    IN  IF call.error # NoneOpt \/ call.raw[1].form = "empty"
        THEN [raised |-> FALSE, attempts |-> call.attempts,
              out |-> Some(BRAIN_A_SAFE_DEFAULTS(NoneOpt))]
        ELSE LET p == brain_a_parse_response(call.raw[1])
             IN  IF p.raised
                 THEN [raised |-> TRUE, attempts |-> call.attempts, out |-> NoneOpt]
                 ELSE IF p.parsed = NoneOpt
                 THEN [raised |-> FALSE, attempts |-> call.attempts,
                       out |-> Some(BRAIN_A_SAFE_DEFAULTS(call.raw))]
                 ELSE [raised |-> FALSE, attempts |-> call.attempts, out |-> p.parsed]

BRAIN_B_SAFE_DEFAULTS(raw_response) ==
    [explanation |-> "default", step_by_step |-> "default",
     alternative_approach |-> "default", mini_problem |-> NoneOpt,
     raw_response |-> raw_response, parse_error |-> TRUE]

\* _parse_mini_problem: None unless the raw mini_problem is a dict with every
\* required field
parse_mini_problem(raw_mp) ==
    IF raw_mp = "wellformed" THEN Some(MiniProblem("easy", <<VisibleCase, HiddenCase>>))
    ELSE NoneOpt

\* brain_b._parse_response
brain_b_parse_response(raw) ==
    LET loaded == loads_or_extract(raw)
    IN  IF loaded = NoneOpt THEN [raised |-> FALSE, parsed |-> NoneOpt]
        ELSE IF loaded[1] # "object" THEN [raised |-> TRUE, parsed |-> NoneOpt]
        ELSE [raised |-> FALSE,
              parsed |-> Some(
                  [explanation |-> IF raw.explanation = "" THEN "misunderstanding"
                                   ELSE raw.explanation,
                   step_by_step |-> IF raw.step_by_step = "" THEN "three steps"
                                    ELSE raw.step_by_step,
                   alternative_approach |->
                       IF raw.alternative_approach = "" THEN "another strategy"
                       ELSE raw.alternative_approach,
                   mini_problem |-> parse_mini_problem(raw.mini_problem),
                   raw_response |-> Some(raw), parse_error |-> FALSE])]

\* get_deep_explanation: the BrainBOutput, or the exception that leaves it
get_deep_explanation(reply) ==
    LET call == call_ollama(reply)
    IN  IF call.error # NoneOpt \/ call.raw[1].form = "empty"
        THEN [raised |-> FALSE, attempts |-> call.attempts,
              out |-> Some(BRAIN_B_SAFE_DEFAULTS(NoneOpt))]
        ELSE LET p == brain_b_parse_response(call.raw[1])
             IN  IF p.raised
                 THEN [raised |-> TRUE, attempts |-> call.attempts, out |-> NoneOpt]
                 ELSE IF p.parsed = NoneOpt
                 THEN [raised |-> FALSE, attempts |-> call.attempts,
                       out |-> Some(BRAIN_B_SAFE_DEFAULTS(call.raw))]
                 ELSE [raised |-> FALSE, attempts |-> call.attempts, out |-> p.parsed]

(***************************************************************************)
(* One call of either generator on every reply of the model server.        *)
(***************************************************************************)
ReplyShapes ==
    { <<transport, form, type>> :
          transport \in Transports, form \in {"empty", "plain", "json", "wrapped"},
          type \in {"object", "array", "scalar"} }

\* a transport failure has no text, only a JSON text has a value, and what is
\* cut out between braces is an object
WellFormedShape(s) ==
    /\ s[1] # "ok" => s[2] = "empty" /\ s[3] = "scalar"
    /\ s[2] \in {"empty", "plain"} => s[3] = "scalar"
    /\ s[2] = "wrapped" => s[3] = "object"

BrainAReplies ==
    { [transport |-> s[1], form |-> s[2], type |-> s[3], feedback_text |-> f,
       mistake_category |-> m, difficulty_signal |-> d] :
          s \in {x \in ReplyShapes : WellFormedShape(x)}, f \in {"", "text"},
          m \in {"", "logic", "nonsense"}, d \in {"", "easier", "harder", "nonsense"} }

BrainBReplies ==
    { [transport |-> s[1], form |-> s[2], type |-> s[3], explanation |-> e,
       step_by_step |-> st, alternative_approach |-> a, mini_problem |-> mp] :
          s \in {x \in ReplyShapes : WellFormedShape(x)}, e \in {"", "text"},
          st \in {"", "steps"}, a \in {"", "text"},
          mp \in {"absent", "malformed", "wellformed"} }

apply_get_feedback(reply) ==
    /\ response' = [kind |-> "feedback", generator |-> "brain_a", reply |-> reply,
                    result |-> get_feedback(reply)]
    /\ UNCHANGED <<now, cooldown_store, tables, foreign_keys, gaussian_mode, served,
                   threads>>

apply_get_deep_explanation(reply) ==
    /\ response' = [kind |-> "feedback", generator |-> "brain_b", reply |-> reply,
                    result |-> get_deep_explanation(reply)]
    /\ UNCHANGED <<now, cooldown_store, tables, foreign_keys, gaussian_mode, served,
                   threads>>

FeedbackInit == InitCommon /\ gaussian_mode = USE_GAUSSIAN /\ foreign_keys

FeedbackNext ==
    /\ response = NoResponse
    /\ \/ \E reply \in BrainAReplies : apply_get_feedback(reply)
       \/ \E reply \in BrainBReplies : apply_get_deep_explanation(reply)

FeedbackSpec == FeedbackInit /\ [][FeedbackNext]_vars

\* C23: a call of a feedback generator makes one request, never raises, and
\* returns the safe defaults on a timeout, a connection error, an HTTP error,
\* an empty response, a text that is not JSON and a JSON value that is not
\* an object
C23_SingleAttemptSafeDefault ==
    response.kind = "feedback" =>
        LET failure == \/ response.reply.transport # "ok"
                       \/ response.reply.form \in {"empty", "plain"}
                       \/ response.reply.type # "object"
        IN  /\ response.result.attempts = 1
            /\ ~response.result.raised
            /\ failure => /\ response.result.out # NoneOpt
                          /\ response.result.out[1].parse_error

(***************************************************************************)
(* analysis/feature_extractor.py: the error classification of a record     *)
(* of flags.                                                               *)
(***************************************************************************)
FeatureFlags ==
    {"syntax_error", "missing_base_case", "off_by_one_risk", "wrong_data_structure",
     "brute_force_detected", "hardcoded_values", "generalization_failure",
     "approach_mismatch"}

CodeFeatures == [FeatureFlags -> BOOLEAN]

classify_error_off_by_one_first(f) ==
    IF f["syntax_error"] THEN "syntax_error"
    ELSE IF f["off_by_one_risk"] THEN "off_by_one"
    ELSE IF f["missing_base_case"] THEN "missing_base_case"
    ELSE IF f["wrong_data_structure"] THEN "wrong_data_structure"
    ELSE IF f["brute_force_detected"] THEN "brute_force_detected"
    ELSE IF f["hardcoded_values"] THEN "hardcoded_values"
    ELSE IF f["generalization_failure"] THEN "generalization_failure"
    ELSE IF f["approach_mismatch"] THEN "approach_mismatch"
    ELSE "none"

\* _classify_error
classify_error(f) ==
    IF f["syntax_error"] THEN "syntax_error"
    ELSE IF f["missing_base_case"] THEN "missing_base_case"
    ELSE IF f["off_by_one_risk"] THEN "off_by_one"
    ELSE IF f["wrong_data_structure"] THEN "wrong_data_structure"
    ELSE IF f["brute_force_detected"] THEN "brute_force_detected"
    ELSE IF f["hardcoded_values"] THEN "hardcoded_values"
    ELSE IF f["generalization_failure"] THEN "generalization_failure"
    ELSE IF f["approach_mismatch"] THEN "approach_mismatch"
    ELSE "none"

apply_classify_error(f) ==
    /\ response' = [kind |-> "classification", features |-> f,
                    error_type |-> classify_error(f)]
    /\ UNCHANGED <<now, cooldown_store, tables, foreign_keys, gaussian_mode, served,
                   threads>>

ClassifyInit == InitCommon /\ gaussian_mode = USE_GAUSSIAN /\ foreign_keys

ClassifyNext == response = NoResponse /\ \E f \in CodeFeatures : apply_classify_error(f)

ClassifySpec == ClassifyInit /\ [][ClassifyNext]_vars

\* the flags in the order of their priority, each with its classification
ClassificationPriority ==
    << <<"syntax_error", "syntax_error">>, <<"missing_base_case", "missing_base_case">>,
       <<"off_by_one_risk", "off_by_one">>,
       <<"wrong_data_structure", "wrong_data_structure">>,
       <<"brute_force_detected", "brute_force_detected">>,
       <<"hardcoded_values", "hardcoded_values">>,
       <<"generalization_failure", "generalization_failure">>,
       <<"approach_mismatch", "approach_mismatch">> >>

\* C24: the classification of a record of flags is that of the set flag of
\* the highest priority (syntax, missing base case, off by one, wrong data
\* structure, brute force, hardcoded values, generalization failure, approach
\* mismatch), and "none" exactly when no flag is set
C24_HighestPriorityFlag ==
    response.kind = "classification" =>
        LET f == response.features
            set == {i \in 1..Len(ClassificationPriority) : f[ClassificationPriority[i][1]]}
        IN  /\ set = {} <=> response.error_type = "none"
            /\ \A i \in set :
                   (\A j \in set : i <= j) =>
                       response.error_type = ClassificationPriority[i][2]

C24_SeveralFlagsSet ==
    /\ response.kind = "classification"
    /\ ~response.features["syntax_error"]
    /\ response.features["missing_base_case"]
    /\ response.features["off_by_one_risk"]
    /\ response.features["approach_mismatch"]
    /\ response.error_type = "missing_base_case"

(***************************************************************************)
(* The order of persistence and selection within one submission.           *)
(***************************************************************************)
\* C25: a submission that is answered has its row in the store, seen by the
\* selector, when the next exercise is selected: the next exercise it returns
\* is never the exercise just submitted
C25_NextIsNotTheSubmitted ==
    (response.kind = "submit" /\ response.status = 200) =>
        /\ response.submission_id \in 1..Len(submissions)
        /\ submissions[response.submission_id].problem_id = response.problem_id
        /\ response.next_problem # NoneOpt =>
               response.next_problem[1] # response.problem_id

\* the exercise just submitted was new to the student and is of the concept and
\* the difficulty of the exercise returned
C25_SubmittedWasCandidate ==
    /\ response.kind = "submit"
    /\ response.status = 200
    /\ response.next_problem # NoneOpt
    /\ \A i \in 1..Len(submissions) :
           submissions[i].problem_id = response.problem_id => i = response.submission_id
    /\ problems[response.problem_id].primary_concept =
           problems[response.next_problem[1]].primary_concept
    /\ problems[response.problem_id].difficulty =
           problems[response.next_problem[1]].difficulty
    /\ problems[response.problem_id].difficulty_score <=
           problems[response.next_problem[1]].difficulty_score

(***************************************************************************)
(* The order of the capability update and the escalation check within one  *)
(* submission.                                                             *)
(***************************************************************************)
\* C26: the capability score is updated before the escalation rules are
\* checked: the score the low-capability rule reads in a submission is the
\* student's score for the concept with this submission's update in it, so a
\* submission that leaves the score under the threshold, with no request and
\* no streak, escalates as low_capability
C26_EscalationSeesUpdatedScore ==
    (response.kind = "submit" /\ response.status = 200 /\ response.escalation # NoneOpt) =>
        LET concept == problems[response.problem_id].primary_concept
            current == get_capability_score(response.student_id, concept,
                                            capability_scores)
            e       == response.escalation[1]
        IN  /\ e.score = current
            /\ (~response.deep_explain /\ e.streak < ESCALATION_STREAK
                /\ current < ESCALATION_LOW_CAP) => e.reason = "low_capability"

\* C27: without a request of the student, a submission escalates as streak
\* exactly when the run of consecutive failures (pass rate under 1.0) on the
\* concept, counted backward from this submission to the first full pass,
\* has reached ESCALATION_STREAK: the third failure in a row is escalated
C27_StreakOnThirdFailure ==
    (/\ response.kind = "submit" /\ response.status = 200
     /\ response.escalation # NoneOpt /\ ~response.deep_explain) =>
        LET concept == problems[response.problem_id].primary_concept
            run     == count_consecutive_failures(response.student_id, concept,
                                                  submissions, problems)
        IN  response.escalation[1].reason = "streak" <=> run >= ESCALATION_STREAK

\* C28: a submission rejected for a cooldown, one already active or one this
\* check imposes, changes nothing but the cooldown store: the code is not run,
\* no submission, capability score, escalation record or problem is written,
\* and no next exercise is selected
C28_CooldownRejectionFrame ==
    [][ (response' # response /\ response'.kind = "submit" /\ response'.status = 429) =>
            /\ problems' = problems
            /\ submissions' = submissions
            /\ capability_scores' = capability_scores
            /\ escalation_logs' = escalation_logs
            /\ served' = served
            /\ ~response'.executed
            /\ response'.next_problem = NoneOpt
            /\ response'.capability_update = NoneOpt
            /\ response'.escalation = NoneOpt ]_vars

\* a rejection by a cooldown that this very check imposed
C28_CooldownImposed ==
    /\ response.kind = "submit" /\ response.status = 429
    /\ response.student_id \notin DOMAIN response.prior_store
    /\ response.student_id \in DOMAIN cooldown_store
    /\ Len(submissions) >= ANTI_GAME_SUBMIT_MAX

\* a rejection by a cooldown that was already active
C28_CooldownAlreadyActive ==
    /\ response.kind = "submit" /\ response.status = 429
    /\ response.student_id \in DOMAIN response.prior_store
    /\ response.at < response.prior_store[response.student_id]

\* C29: when an escalation audit record is written, the submission it names is
\* already in the store: a record added by a step names a submission stored
\* before the step, and the store never refuses the record for naming a
\* submission it does not hold
C29_AuditNamesStoredSubmission ==
    [][ /\ \A i \in (Len(escalation_logs) + 1)..Len(escalation_logs') :
               escalation_logs'[i].submission_id \in 1..Len(submissions)
        /\ (response' # response /\ response'.kind = "submit") =>
               response'.status # 500 ]_vars

====
